---- MODULE Spec2Model ----
(***************************************************************************)
(* State-machine model of the Dungeon Scribe dashboard scripts:            *)
(*   - the transcription controls (start / pause-resume / stop),           *)
(*   - the message log, the session timeline and the recent-quest list,    *)
(*   - the inbound message router (ws.onmessage) of the dashboard script,  *)
(*   - the log search (filterLogs),                                        *)
(*   - the live-microphone client (main_live.js): its own /ws handler and  *)
(*     the asynchronous startLive / stopLive capture pipeline.             *)
(* The dashboard script exists in two variants, which differ in the end of *)
(* the log at which addLogMessage inserts: variant 1 appends ("beforeend") *)
(* and variant 2 prepends ("afterbegin").                                  *)
(***************************************************************************)
EXTENDS Integers, Sequences, FiniteSets, TLC

VARIABLES
    variant,       \* which dashboard script is loaded: 1 or 2
    txState,       \* 'idle' | 'recording' | 'paused'
    log,           \* children of #log, first child first
    made,          \* number of log nodes created so far (node identity)
    timeline,      \* .t-item children of #timeline-rail, first child first
    questList,     \* children of #quest-list, first child first
    questSeen,     \* quest names of the Quest Update messages received, newest first
    wsOpened,      \* ws.onopen has fired
    pending,       \* queries of the filterLogs calls suspended at fetch
    last,          \* the operation that produced this state, with its input
    isListening,   \* main_live.js: isListening
    audioWs,       \* main_live.js: audioWs (socket id, 0 = null)
    audioContext,  \* main_live.js: audioContext (context id, 0 = null)
    workletNode,   \* main_live.js: workletNode (context id of the node, 0 = null)
    procNode,      \* main_live.js: procNode (context id of the node, 0 = null)
    liveUi,        \* text of #tx-state as set by setUiState
    sockets,       \* audio sockets created so far: id -> readyState
    contexts,      \* audio contexts created so far: id -> [state, module]
    calls,         \* startLive invocations: id -> [pc, ws, ctx, sinceStop]
    stops,         \* number of stopLive calls so far
    canWorklet,    \* the page is secure and has audioContext.audioWorklet
    quests,        \* inventory.js (quests page): quests
    selectedQuestId, \* quests page: selectedQuestId (0 = null)
    globalTimeline,  \* quests page: the entries shown in #global-timeline
    storedQuests,  \* localStorage['ds_quests_v1'], decoded
    qClock,        \* the time nowTs() returns
    qNextId,       \* ids handed out by uid() on the quests page
    qOps,          \* number of quest mutations so far
    characters,    \* characters.js: characters
    selectedCharId,  \* characters.js: selectedCharId (0 = null)
    storedChars,   \* localStorage['ds_characters_v1'], decoded
    cOps,          \* number of character sheet mutations so far
    chProf,        \* characters.js: the number shown in #ch-prof (0 = nothing shown)
    cNextId,       \* ids handed out by uid() on the characters page
    inventory,     \* inventory.js (inventory page): inventory
    selectedId,    \* inventory page: selectedId (0 = null)
    storedInv,     \* localStorage['ds_inventory_v1'], decoded
    iNextId,       \* ids handed out by uid() on the inventory page
    iOps,          \* number of inventory mutations so far
    storage,       \* per storage key, what getItem finds when its page loads
    pages          \* the pages whose load function has run

dashVars == <<variant, txState, log, made, timeline, questList, questSeen,
              wsOpened, pending, last>>
liveVars == <<isListening, audioWs, audioContext, workletNode, procNode,
              liveUi, sockets, contexts, calls, stops, canWorklet>>
questVars == <<quests, selectedQuestId, globalTimeline, storedQuests, qClock,
               qNextId, qOps>>
charVars == <<characters, selectedCharId, storedChars, cOps, chProf, cNextId>>
invVars == <<inventory, selectedId, storedInv, iNextId, iOps>>
loadVars == <<storage, pages>>
sheetVars == <<quests, selectedQuestId, globalTimeline, storedQuests, qClock,
               qNextId, qOps, characters, selectedCharId, storedChars, cOps,
               chProf, cNextId, inventory, selectedId, storedInv, iNextId, iOps,
               storage, pages>>
vars == <<variant, txState, log, made, timeline, questList, questSeen,
          wsOpened, pending, last, isListening, audioWs, audioContext,
          workletNode, procNode, liveUi, sockets, contexts, calls, stops,
          canWorklet, quests, selectedQuestId, globalTimeline, storedQuests,
          qClock, qNextId, qOps, characters, selectedCharId, storedChars, cOps,
          chProf, cNextId, inventory, selectedId, storedInv, iNextId, iOps,
          storage, pages>>

----------------------------------------------------------------------------
(* Bounds *)

\* log nodes created in one behaviour of the dashboard
MaxMade == 4
\* Quest Update messages delivered in one behaviour
MaxQuestMsgs == 3
\* filterLogs calls suspended at fetch at one time
MaxPending == 1
\* startLive invocations in one behaviour of the live client
MaxCalls == 2
\* stopLive invocations in one behaviour of the live client
MaxStops == 2

\* quest mutations (new quest, event, assignment, completion, abandonment) in
\* one behaviour of the quests page
MaxQuestOps == 3
\* the latest time the clock of the quests page reaches
MaxClock == 1
\* character sheet mutations in one behaviour
MaxCharOps == 2
\* inventory mutations in one behaviour
MaxInvOps == 2

----------------------------------------------------------------------------
(* Values *)

TxStates == {"idle", "recording", "paused"}

Min(a, b) == IF a < b THEN a ELSE b

\* the cap of the recent-quest list
QuestCap == 2

\* a log node: n is the node's identity (creation order)
LogEntry(n, cls, avatar, label, body) ==
    [n |-> n, cls |-> cls, avatar |-> avatar, label |-> label, body |-> body]

\* an inbound socket payload: valid is whether JSON.parse accepts it
Payload(valid, hasHeading, prefix, colon, name, mtype, qn, content, loc) ==
    [valid |-> valid, hasHeading |-> hasHeading, prefix |-> prefix,
     colon |-> colon, name |-> name, type |-> mtype, quest_name |-> qn,
     content |-> content, location |-> loc]

NoPayload == Payload(FALSE, FALSE, "", FALSE, "", "", "", "", "")

QuestNames == {"Q1", "Q2"}

Payloads ==
    {Payload(TRUE, TRUE, "Quest Update", FALSE, "", "", q, "go", "") : q \in QuestNames}
    \cup
    { NoPayload,
      Payload(TRUE, TRUE, "World State Update", FALSE, "", "", "", "fog", "Docks"),
      Payload(TRUE, TRUE, "Character Action", TRUE, "kyra", "", "", "Looks", ""),
      Payload(TRUE, TRUE, "Character Outcome", TRUE, "Narrator", "", "", "Rain", "Docks"),
      Payload(TRUE, TRUE, "Character Action", FALSE, "", "", "", "Looks", ""),
      Payload(TRUE, TRUE, "Quest Update", TRUE, "x", "", "Q1", "go", ""),
      Payload(TRUE, TRUE, "Scene", FALSE, "", "", "", "fog", ""),
      Payload(TRUE, FALSE, "", FALSE, "", "summary", "", "recap", "") }

\* heading === s
HeadingIs(m, s) == m.hasHeading /\ m.prefix = s /\ ~m.colon

\* heading.startsWith(s), for the headings of Payloads
HeadingStartsWith(m, s) == m.prefix = s

ToLowerCase(s) ==
    IF s \in {"Narrator", "NARRATOR", "narrator"} THEN "narrator"
    ELSE IF s \in {"Kyra", "kyra"} THEN "kyra" ELSE s

\* charAt(0).toUpperCase() + slice(1)
Capitalize(s) ==
    IF s = "kyra" THEN "Kyra" ELSE IF s = "narrator" THEN "Narrator" ELSE s

\* charAt(0).toLowerCase() + slice(1)
Uncapitalize(s) ==
    IF s = "Looks" THEN "looks" ELSE IF s = "Rain" THEN "rain" ELSE s

\* charAt(0).toUpperCase()
Initial(s) ==
    IF s \in {"kyra", "Kyra"} THEN "K"
    ELSE IF s \in {"narrator", "Narrator", "NARRATOR"} THEN "N" ELSE s

Op(op, arg, threw) == [op |-> op, arg |-> arg, threw |-> threw]

----------------------------------------------------------------------------
(* Dashboard script: log, timeline and quest-list helpers *)

\* addLog(meta, text): logEl.appendChild(wrap), in both variants
AddLog(l, n, meta, text) ==
    Append(l, LogEntry(n, "msg", "S", meta, <<text>>))

AddLogMessageReplace(v, l, e) == <<e>>

\* addLogMessage(messageHtml): insertAdjacentHTML "beforeend" in variant 1,
\* "afterbegin" in variant 2
AddLogMessage(v, l, e) ==
    IF v = 1 THEN Append(l, e) ELSE <<e>> \o l

\* addTimelineEvent(time, type, title, meta, icon): rail.insertBefore(item, rail.firstChild)
AddTimelineEvent(t, type, title, meta) ==
    <<[type |-> type, title |-> title, meta |-> meta]>> \o t

\* while (questList.children.length > 2) questList.removeChild(questList.lastChild)
RECURSIVE KeepRecent(_)
KeepRecent(ql) ==
    IF Len(ql) > QuestCap THEN KeepRecent(SubSeq(ql, 1, Len(ql) - 1)) ELSE ql

AddQuestAppend(ql, title, update) ==
    KeepRecent(Append(ql, [cls |-> "quest", title |-> title, update |-> update]))

\* addQuest(title, update): questList.prepend(questDiv), then keep the 2 most recent
AddQuest(ql, title, update) ==
    KeepRecent(<<[cls |-> "quest", title |-> title, update |-> update]>> \o ql)

----------------------------------------------------------------------------
(* Dashboard script: the inbound message router, ws.onmessage *)

NoWrap == [set |-> FALSE, cls |-> "", avatar |-> "", label |-> "", body |-> <<>>]

Wrap(cls, avatar, label, body) ==
    [set |-> TRUE, cls |-> cls, avatar |-> avatar, label |-> label, body |-> body]

\* the page state the handler works on
Page(l, n, t, ql) == [log |-> l, made |-> n, timeline |-> t, questList |-> ql]

\* if (wrap) addLogMessage(wrap.outerHTML): a new node parsed from the HTML
AppendWrap(v, st, w) ==
    [st EXCEPT !.log = AddLogMessage(v, st.log,
                          LogEntry(st.made + 1, w.cls, w.avatar, w.label, w.body)),
               !.made = st.made + 1]

QuestBranchFallsThrough(v, st, m) ==
    IF HeadingIs(m, "Quest Update")
    THEN LET w  == Wrap("msg right", "quest.png", "Quest Update",
                        <<m.quest_name, m.content>>)
             s1 == AppendWrap(v, st, w)
             s2 == [s1 EXCEPT !.timeline =
                        AddTimelineEvent(s1.timeline, "Quest", m.quest_name,
                                         "Quest Updated"),
                              !.questList = AddQuest(s1.questList, m.quest_name, m.content)]
         IN [st |-> s2, wrap |-> w, returned |-> FALSE]
    ELSE [st |-> st, wrap |-> NoWrap, returned |-> FALSE]

\* if (msg.heading === "Quest Update") { ...; return; }
QuestBranch(v, st, m) ==
    IF HeadingIs(m, "Quest Update")
    THEN LET w  == Wrap("msg right", "quest.png", "Quest Update",
                        <<m.quest_name, m.content>>)
             s1 == AppendWrap(v, st, w)
             s2 == [s1 EXCEPT !.timeline =
                        AddTimelineEvent(s1.timeline, "Quest", m.quest_name,
                                         "Quest Updated"),
                              !.questList = AddQuest(s1.questList, m.quest_name, m.content)]
         IN [st |-> s2, wrap |-> w, returned |-> TRUE]
    ELSE [st |-> st, wrap |-> NoWrap, returned |-> FALSE]

WorldBranchNoTimeline(v, st, m) ==
    [st |-> st,
     wrap |-> Wrap("msg right", IF v = 1 THEN "DM" ELSE "crown.png",
                   "World State Update", <<m.content>>),
     threw |-> FALSE]

\* if (msg.heading === "World State Update") { wrap = ...; addTimelineEvent(...) }
WorldBranch(v, st, m) ==
    [st |-> [st EXCEPT !.timeline =
                 AddTimelineEvent(st.timeline, "Event", m.location, "Location Changed")],
     wrap |-> Wrap("msg right", IF v = 1 THEN "DM" ELSE "crown.png",
                   "World State Update", <<m.content>>),
     threw |-> FALSE]

\* else if (heading starts with "Character Action" / "Character Outcome") { ... }
CharacterBranch(st, wrap, m) ==
    IF ~m.hasHeading
    THEN [st |-> st, wrap |-> wrap, threw |-> TRUE]   \* undefined.startsWith
    ELSE IF HeadingStartsWith(m, "Character Action")
            \/ HeadingStartsWith(m, "Character Outcome")
    THEN IF ~m.colon
         THEN [st |-> st, wrap |-> wrap, threw |-> TRUE]   \* split(":")[1].trim()
         ELSE LET charName == m.name
                  meta == IF HeadingStartsWith(m, "Character Action")
                          THEN "Action" ELSE "Outcome"
              IN IF ToLowerCase(charName) = "narrator"
                 THEN [st |-> st, threw |-> FALSE,
                       wrap |-> Wrap("msg right", "DM", "World State Update",
                                     <<m.location, m.content>>)]
                 ELSE [st |-> st, threw |-> FALSE,
                       wrap |-> Wrap("msg left", Initial(charName), meta,
                                     <<Capitalize(charName), Uncapitalize(m.content)>>)]
    ELSE [st |-> st, wrap |-> wrap, threw |-> FALSE]

\* ws.onmessage = (event) => { ... }
OnMessage(v, st, m) ==
    IF ~m.valid
    THEN [st |-> st, threw |-> TRUE]                   \* JSON.parse throws
    ELSE LET q == QuestBranch(v, st, m)
         IN IF q.returned
            THEN [st |-> q.st, threw |-> FALSE]
            ELSE LET r == IF HeadingIs(m, "World State Update")
                          THEN WorldBranch(v, q.st, m)
                          ELSE CharacterBranch(q.st, q.wrap, m)
                 IN IF r.threw
                    THEN [st |-> r.st, threw |-> TRUE]
                    ELSE IF r.wrap.set
                    THEN [st |-> AppendWrap(v, r.st, r.wrap), threw |-> FALSE]
                    ELSE [st |-> r.st, threw |-> FALSE]

----------------------------------------------------------------------------
(* Live client: its own /ws handler, uiWs.onmessage *)

\* pushSummary(text) and the Quest Update branch, inside try { } catch {}
LiveOnMessage(v, st, m) ==
    IF ~m.valid
    THEN st
    ELSE LET s1 == IF m.type = "summary"
                   THEN AppendWrap(v, st, Wrap("msg left", "summary", "Summary",
                                               <<m.content>>))
                   ELSE st
         IN IF HeadingIs(m, "Quest Update")
            THEN [s1 EXCEPT !.questList =
                     <<[cls |-> "quest-list-item",
                        title |-> IF m.quest_name = "" THEN "Quest" ELSE m.quest_name,
                        update |-> m.content]>> \o s1.questList]
            ELSE s1

----------------------------------------------------------------------------
(* Log search *)

SearchTypes == {"all", "quest"}
Queries == {"", "fog"}

\* the documents a search response may carry, in Object.entries order
SearchResults ==
    { <<>>,
      <<[col |-> "player", doc |-> "d1"]>>,
      <<[col |-> "player", doc |-> "d1"], [col |-> "world", doc |-> "d2"]>> }

\* the nodes rendered for a response: logEl.appendChild(wrap) per document
RECURSIVE RenderResults(_, _, _)
RenderResults(l, n, docs) ==
    IF docs = <<>> THEN l
    ELSE RenderResults(
            Append(l, LogEntry(n + 1, "msg",
                               IF docs[1].col = "player" THEN "P" ELSE "W",
                               docs[1].col, <<docs[1].doc>>)),
            n + 1, Tail(docs))

----------------------------------------------------------------------------
(* Initial state: the page after the scripts have loaded *)

NoCall == [pc |-> "new", ws |-> 0, ctx |-> 0, sinceStop |-> FALSE]

PageInit ==
    /\ variant \in {1, 2}
    /\ txState = "idle"
    /\ log = <<>>
    /\ made = 0
    /\ timeline = <<>>
    /\ questList = <<>>
    /\ questSeen = <<>>
    /\ wsOpened = FALSE
    /\ pending = <<>>
    /\ last = Op("init", NoPayload, FALSE)
    /\ isListening = FALSE
    /\ audioWs = 0
    /\ audioContext = 0
    /\ workletNode = 0
    /\ procNode = 0
    /\ liveUi = "Idle"
    /\ sockets = <<>>
    /\ contexts = <<>>
    /\ calls = [c \in 1..MaxCalls |-> NoCall]
    /\ stops = 0

\* the storage keys of the three collections
StorageKeys == {"ds_inventory_v1", "ds_quests_v1", "ds_characters_v1"}

\* the inventory page is another document: not loaded
InvNotLoaded ==
    /\ inventory = <<>>
    /\ selectedId = 0
    /\ storedInv = <<>>
    /\ iNextId = 1
    /\ iOps = 0

\* no load function is followed
LoadsNotTraced ==
    /\ storage = [k \in StorageKeys |-> "absent"]
    /\ pages = {}

\* the quests page and the characters page are other documents: not loaded
SheetsNotLoaded ==
    /\ InvNotLoaded
    /\ LoadsNotTraced
    /\ chProf = 0
    /\ cNextId = 1
    /\ quests = <<>>
    /\ selectedQuestId = 0
    /\ globalTimeline = <<>>
    /\ storedQuests = <<>>
    /\ qClock = 0
    /\ qNextId = 1
    /\ qOps = 0
    /\ characters = <<>>
    /\ selectedCharId = 0
    /\ storedChars = <<>>
    /\ cOps = 0

\* the dashboard handlers never read canWorklet: one environment stands for both
Init ==
    /\ PageInit
    /\ SheetsNotLoaded
    /\ canWorklet = FALSE

\* the live client runs with or without worklet support
InitLive ==
    /\ PageInit
    /\ SheetsNotLoaded
    /\ canWorklet \in BOOLEAN

----------------------------------------------------------------------------
(* Dashboard script: transcription controls *)

\* the system node the start handler passes to addLogMessage
StartedEntry(n) == LogEntry(n, "msg", "S", "System", <<"Transcription started.">>)

StartGuardIdleOnly(s) == s = "idle"

StartGuardAlways(s) == TRUE

\* if (txState === 'idle' || txState === 'paused')
StartGuard(s) == s = "idle" \/ s = "paused"

\* btnStart click
Start ==
    /\ last' = Op("start", NoPayload, FALSE)
    /\ IF StartGuard(txState)
       THEN /\ made < MaxMade
            /\ txState' = "recording"
            /\ log' = AddLogMessage(variant, log, StartedEntry(made + 1))
            /\ made' = made + 1
       ELSE UNCHANGED <<txState, log, made>>
    /\ UNCHANGED <<variant, timeline, questList, questSeen, wsOpened, pending>>
    /\ UNCHANGED liveVars
    /\ UNCHANGED sheetVars

\* btnPause click
PauseResume ==
    /\ last' = Op("pauseResume", NoPayload, FALSE)
    /\ IF txState = "recording"
       THEN /\ made < MaxMade
            /\ txState' = "paused"
            /\ log' = AddLog(log, made + 1, "System", "Transcription paused.")
            /\ made' = made + 1
       ELSE IF txState = "paused"
       THEN /\ made < MaxMade
            /\ txState' = "recording"
            /\ log' = AddLog(log, made + 1, "System", "Transcription resumed.")
            /\ made' = made + 1
       ELSE UNCHANGED <<txState, log, made>>
    /\ UNCHANGED <<variant, timeline, questList, questSeen, wsOpened, pending>>
    /\ UNCHANGED liveVars
    /\ UNCHANGED sheetVars

\* btnStop click
Stop ==
    /\ last' = Op("stop", NoPayload, FALSE)
    /\ IF txState # "idle"
       THEN /\ made < MaxMade
            /\ txState' = "idle"
            /\ log' = AddLog(log, made + 1, "System", "Transcription stopped.")
            /\ made' = made + 1
       ELSE UNCHANGED <<txState, log, made>>
    /\ UNCHANGED <<variant, timeline, questList, questSeen, wsOpened, pending>>
    /\ UNCHANGED liveVars
    /\ UNCHANGED sheetVars

----------------------------------------------------------------------------
(* Dashboard script: socket handlers *)

\* ws.onopen
WsOnOpen ==
    /\ ~wsOpened
    /\ made < MaxMade
    /\ wsOpened' = TRUE
    /\ timeline' = AddTimelineEvent(timeline, "Session", "New adventure begins",
                                    "Game started")
    /\ log' = AddLog(log, made + 1, "System", "New game session started.")
    /\ made' = made + 1
    /\ last' = Op("wsOpen", NoPayload, FALSE)
    /\ UNCHANGED <<variant, txState, questList, questSeen, pending>>
    /\ UNCHANGED liveVars
    /\ UNCHANGED sheetVars

\* the quest names received so far, newest first
IsQuestUpdate(m) == m.valid /\ HeadingIs(m, "Quest Update")

NoteQuest(seen, m) ==
    IF m.valid /\ HeadingIs(m, "Quest Update") THEN <<m.quest_name>> \o seen ELSE seen

\* ws.onmessage
WsOnMessage(m) ==
    /\ wsOpened
    /\ IsQuestUpdate(m) => Len(questSeen) < MaxQuestMsgs
    /\ LET r == OnMessage(variant, Page(log, made, timeline, questList), m)
       IN /\ r.st.made <= MaxMade
          /\ log' = r.st.log
          /\ made' = r.st.made
          /\ timeline' = r.st.timeline
          /\ questList' = r.st.questList
          /\ last' = Op("wsMessage", m, r.threw)
    /\ questSeen' = NoteQuest(questSeen, m)
    /\ UNCHANGED <<variant, txState, wsOpened, pending>>
    /\ UNCHANGED liveVars
    /\ UNCHANGED sheetVars

\* uiWs.onmessage of the live client
LiveWsOnMessage(m) ==
    /\ LET st == LiveOnMessage(variant, Page(log, made, timeline, questList), m)
       IN /\ st.made <= MaxMade
          /\ IsQuestUpdate(m) => Len(questSeen) < MaxQuestMsgs
          /\ log' = st.log
          /\ made' = st.made
          /\ timeline' = st.timeline
          /\ questList' = st.questList
          /\ last' = Op("liveMessage", m, FALSE)
    /\ questSeen' = NoteQuest(questSeen, m)
    /\ UNCHANGED <<variant, txState, wsOpened, pending>>
    /\ UNCHANGED liveVars
    /\ UNCHANGED sheetVars

----------------------------------------------------------------------------
(* Dashboard script: log search (variant 2) *)

\* filterLogs(type, query) up to its await fetch(...)
FilterLogs(type, query) ==
    /\ variant = 2
    /\ last' = Op("filterLogs", NoPayload, FALSE)
    /\ IF query = ""
       THEN UNCHANGED pending
       ELSE /\ Len(pending) < MaxPending
            /\ pending' = Append(pending, [type |-> type, query |-> query])
    /\ UNCHANGED <<variant, txState, log, made, timeline, questList, questSeen, wsOpened>>
    /\ UNCHANGED liveVars
    /\ UNCHANGED sheetVars

\* filterLogs after the response: clear the log and render the results;
\* a failed fetch or res.json() goes to the catch and changes nothing
FilterLogsDone(i, ok, docs) ==
    /\ i \in 1..Len(pending)
    /\ pending' = SubSeq(pending, 1, i - 1) \o SubSeq(pending, i + 1, Len(pending))
    /\ IF ok
       THEN /\ made + Len(docs) <= MaxMade
            /\ log' = RenderResults(<<>>, made, docs)
            /\ made' = made + Len(docs)
            /\ last' = Op("searchDone", NoPayload, FALSE)
       ELSE /\ UNCHANGED <<log, made>>
            /\ last' = Op("searchFailed", NoPayload, FALSE)
    /\ UNCHANGED <<variant, txState, timeline, questList, questSeen, wsOpened>>
    /\ UNCHANGED liveVars
    /\ UNCHANGED sheetVars

----------------------------------------------------------------------------
(* The dashboard page *)

Next ==
    \/ Start
    \/ PauseResume
    \/ Stop
    \/ WsOnOpen
    \/ \E m \in Payloads : WsOnMessage(m)
    \/ \E t \in SearchTypes, q \in Queries : FilterLogs(t, q)
    \/ \E i \in 1..MaxPending, ok \in BOOLEAN, docs \in SearchResults :
          FilterLogsDone(i, ok, docs)

Spec == Init /\ [][Next]_vars

----------------------------------------------------------------------------
(* The page with the dashboard script and the live client both listening *)
(* on /ws: the two message handlers share the log and the quest list     *)

NextQuests ==
    \/ WsOnOpen
    \/ \E m \in Payloads : WsOnMessage(m)
    \/ \E m \in Payloads : LiveWsOnMessage(m)

SpecQuests == Init /\ [][NextQuests]_vars

----------------------------------------------------------------------------
(* Live client: microphone capture, startLive / stopLive *)

\* pushSystem(text): add(...) -> addLogMessage of the dashboard script
PushSystem(v, l, n, text) ==
    AddLogMessage(v, l, LogEntry(n, "msg right", "S", "System", <<text>>))

\* ws.close() on a socket reference (0 = null: the && guard skips it)
CloseSocket(ss, id) ==
    IF id = 0 THEN ss ELSE [ss EXCEPT ![id] = "closed"]

\* audioContext.close() on a context reference (0 = null)
CloseContext(cs, id) ==
    IF id = 0 THEN cs ELSE [cs EXCEPT ![id].state = "closed"]

\* the catch block of startLive, entered with the socket table ss
Catch(c, ss) ==
    /\ log' = PushSystem(variant, log, made + 1, "Microphone access denied or Audio error")
    /\ made' = made + 1
    /\ isListening' = FALSE
    /\ liveUi' = "Idle"
    /\ sockets' = CloseSocket(ss, audioWs)
    /\ calls' = [calls EXCEPT ![c].pc = "done"]

\* startLive() up to await getUserMedia(...)
StartLive(c) ==
    /\ calls[c].pc = "new"
    /\ c > 1 => calls[c - 1].pc # "new"
    /\ last' = Op("startLive", NoPayload, FALSE)
    /\ IF isListening
       THEN /\ calls' = [calls EXCEPT ![c].pc = "done", ![c].sinceStop = TRUE]
            /\ UNCHANGED isListening
       ELSE /\ calls' = [calls EXCEPT ![c].pc = "awaitMedia", ![c].sinceStop = TRUE]
            /\ isListening' = TRUE
    /\ UNCHANGED <<audioWs, audioContext, workletNode, procNode, liveUi, sockets,
                   contexts, stops, canWorklet>>
    /\ UNCHANGED <<variant, txState, log, made, timeline, questList, questSeen,
                   wsOpened, pending>>
    /\ UNCHANGED sheetVars

\* getUserMedia resolves: openAudioSocket() creates the socket and awaits its open
MediaGranted(c) ==
    /\ calls[c].pc = "awaitMedia"
    /\ sockets' = Append(sockets, "connecting")
    /\ calls' = [calls EXCEPT ![c].pc = "awaitSocket", ![c].ws = Len(sockets) + 1]
    /\ last' = Op("mediaGranted", NoPayload, FALSE)
    /\ UNCHANGED <<isListening, audioWs, audioContext, workletNode, procNode, liveUi,
                   contexts, stops, canWorklet>>
    /\ UNCHANGED <<variant, txState, log, made, timeline, questList, questSeen,
                   wsOpened, pending>>
    /\ UNCHANGED sheetVars

\* getUserMedia rejects
MediaDenied(c) ==
    /\ calls[c].pc = "awaitMedia"
    /\ Catch(c, sockets)
    /\ last' = Op("mediaDenied", NoPayload, TRUE)
    /\ UNCHANGED <<audioWs, audioContext, workletNode, procNode, contexts, stops,
                   canWorklet>>
    /\ UNCHANGED <<variant, txState, timeline, questList, questSeen, wsOpened, pending>>
    /\ UNCHANGED sheetVars

\* ws.onopen of the audio socket: audioWs is set, the audio context is created,
\* and either the worklet module load is awaited or the fallback is wired
SocketOpened(c) ==
    /\ calls[c].pc = "awaitSocket"
    /\ sockets' = [sockets EXCEPT ![calls[c].ws] = "open"]
    /\ audioWs' = calls[c].ws
    /\ log' = PushSystem(variant, log, made + 1, "Live mic transcription started")
    /\ made' = made + 1
    /\ liveUi' = "Recording"
    /\ contexts' = Append(contexts, [state |-> "running", module |-> FALSE])
    /\ audioContext' = Len(contexts) + 1
    /\ IF canWorklet
       THEN /\ calls' = [calls EXCEPT ![c].pc = "awaitModule",
                                      ![c].ctx = Len(contexts) + 1]
            /\ UNCHANGED procNode
       ELSE /\ calls' = [calls EXCEPT ![c].pc = "done", ![c].ctx = Len(contexts) + 1]
            /\ procNode' = Len(contexts) + 1
    /\ last' = Op("socketOpened", NoPayload, FALSE)
    /\ UNCHANGED <<isListening, workletNode, stops, canWorklet>>
    /\ UNCHANGED <<variant, txState, timeline, questList, questSeen, wsOpened, pending>>
    /\ UNCHANGED sheetVars

\* ws.onerror of the audio socket before it opened
SocketFailed(c) ==
    /\ calls[c].pc = "awaitSocket"
    /\ Catch(c, [sockets EXCEPT ![calls[c].ws] = "closed"])
    /\ last' = Op("socketFailed", NoPayload, TRUE)
    /\ UNCHANGED <<audioWs, audioContext, workletNode, procNode, contexts, stops,
                   canWorklet>>
    /\ UNCHANGED <<variant, txState, timeline, questList, questSeen, wsOpened, pending>>
    /\ UNCHANGED sheetVars

\* addModule resolves: the worklet node is built on the CURRENT audioContext and
\* connected to the source of this call's own context
ModuleLoaded(c) ==
    /\ calls[c].pc = "awaitModule"
    /\ LET cs == [contexts EXCEPT ![calls[c].ctx].module = TRUE]
       IN /\ contexts' = cs
          /\ IF audioContext = 0
             THEN \* new AudioWorkletNode(null, ...) throws
                  /\ Catch(c, sockets)
                  /\ UNCHANGED workletNode
                  /\ last' = Op("moduleLoaded", NoPayload, TRUE)
             ELSE IF ~cs[audioContext].module
             THEN \* the processor is not registered in the current context
                  /\ Catch(c, sockets)
                  /\ UNCHANGED workletNode
                  /\ last' = Op("moduleLoaded", NoPayload, TRUE)
             ELSE IF audioContext # calls[c].ctx
             THEN \* source.connect(node of another context) throws
                  /\ Catch(c, sockets)
                  /\ workletNode' = audioContext
                  /\ last' = Op("moduleLoaded", NoPayload, TRUE)
             ELSE /\ workletNode' = audioContext
                  /\ calls' = [calls EXCEPT ![c].pc = "done"]
                  /\ last' = Op("moduleLoaded", NoPayload, FALSE)
                  /\ UNCHANGED <<log, made, isListening, liveUi, sockets>>
    /\ UNCHANGED <<audioWs, audioContext, procNode, stops, canWorklet>>
    /\ UNCHANGED <<variant, txState, timeline, questList, questSeen, wsOpened, pending>>
    /\ UNCHANGED sheetVars

\* addModule rejects
ModuleFailed(c) ==
    /\ calls[c].pc = "awaitModule"
    /\ Catch(c, sockets)
    /\ last' = Op("moduleFailed", NoPayload, TRUE)
    /\ UNCHANGED <<audioWs, audioContext, workletNode, procNode, contexts, stops,
                   canWorklet>>
    /\ UNCHANGED <<variant, txState, timeline, questList, questSeen, wsOpened, pending>>
    /\ UNCHANGED sheetVars

\* stopLive(), wired to both the Pause and the Stop button
StopLive(button) ==
    /\ stops < MaxStops
    /\ stops' = stops + 1
    /\ contexts' = CloseContext(contexts, audioContext)
    /\ sockets' = CloseSocket(sockets, audioWs)
    /\ workletNode' = 0
    /\ procNode' = 0
    /\ audioContext' = 0
    /\ audioWs' = 0
    /\ isListening' = FALSE
    /\ liveUi' = "Idle"
    /\ log' = PushSystem(variant, log, made + 1, "Transcription stopped")
    /\ made' = made + 1
    /\ calls' = [c \in 1..MaxCalls |-> [calls[c] EXCEPT !.sinceStop = FALSE]]
    /\ last' = Op(button, NoPayload, FALSE)
    /\ UNCHANGED canWorklet
    /\ UNCHANGED <<variant, txState, timeline, questList, questSeen, wsOpened, pending>>
    /\ UNCHANGED sheetVars

NextLive ==
    \/ \E c \in 1..MaxCalls : StartLive(c)
    \/ \E c \in 1..MaxCalls : MediaGranted(c)
    \/ \E c \in 1..MaxCalls : MediaDenied(c)
    \/ \E c \in 1..MaxCalls : SocketOpened(c)
    \/ \E c \in 1..MaxCalls : SocketFailed(c)
    \/ \E c \in 1..MaxCalls : ModuleLoaded(c)
    \/ \E c \in 1..MaxCalls : ModuleFailed(c)
    \/ \E b \in {"liveStop", "livePause"} : StopLive(b)

SpecLive == InitLive /\ [][NextLive]_vars

----------------------------------------------------------------------------
(* Quests page (inventory.js, second script): quests and the global timeline *)

EventId(n) == [kind |-> "e", n |-> n]

\* { id: 'c_' + q.id, ts: q.created, type: 'quest-created', text: 'Quest created', quest: q.title }
CreatedEntry(q) ==
    [id |-> [kind |-> "c", n |-> q.id], ts |-> q.created, type |-> "quest-created",
     text |-> "Quest created", quest |-> q.title]

\* { ...ev, quest: q.title }
EventEntry(q, ev) ==
    [id |-> ev.id, ts |-> ev.ts, type |-> ev.type, text |-> ev.text, quest |-> q.title]

QuestEntriesNoCreated(q) ==
    [k \in 1..Len(q.events) |-> EventEntry(q, q.events[k])]

\* the body of quests.forEach in renderGlobalTimeline: the events, then the creation
QuestEntries(q) ==
    [k \in 1..Len(q.events) |-> EventEntry(q, q.events[k])] \o <<CreatedEntry(q)>>

\* allEvents after quests.forEach
RECURSIVE AllEvents(_)
AllEvents(qs) ==
    IF qs = <<>> THEN <<>> ELSE QuestEntries(Head(qs)) \o AllEvents(Tail(qs))

\* e placed behind every entry that the comparator does not order after it
RECURSIVE InsertByTs(_, _)
InsertByTs(sorted, e) ==
    IF sorted = <<>> THEN <<e>>
    ELSE IF Head(sorted).ts >= e.ts
    THEN <<Head(sorted)>> \o InsertByTs(Tail(sorted), e)
    ELSE <<e>> \o sorted

RECURSIVE SortByTsAsc(_)
SortByTsAsc(es) ==
    IF es = <<>> THEN <<>>
    ELSE LET rest == SortByTsAsc(Tail(es))
             small == SelectSeq(rest, LAMBDA x : x.ts < Head(es).ts)
             large == SelectSeq(rest, LAMBDA x : x.ts >= Head(es).ts)
         IN small \o <<Head(es)>> \o large

\* allEvents.sort((a, b) => new Date(b.ts) - new Date(a.ts)): a stable sort,
\* newest first
RECURSIVE SortByTsDesc(_)
SortByTsDesc(es) ==
    IF es = <<>> THEN <<>>
    ELSE InsertByTs(SortByTsDesc(SubSeq(es, 1, Len(es) - 1)), es[Len(es)])

\* renderGlobalTimeline(): the entries appended to #global-timeline
RenderGlobalTimeline(qs) == SortByTsDesc(AllEvents(qs))

SaveQuestsNoRender(qs, shown) == [stored |-> qs, shown |-> shown]

\* saveQuests(): setItem, renderQuestList(), renderGlobalTimeline()
SaveQuests(qs, shown) == [stored |-> qs, shown |-> RenderGlobalTimeline(qs)]

\* the sample quests of loadQuests, stamped by three successive nowTs() calls
SeedQuests(t1, t2, t3) ==
    << [id |-> 1, title |-> "The Whispering Vault", status |-> "active",
        assigned |-> "Kyra", created |-> t1,
        events |-> <<[id |-> EventId(2), ts |-> t2, type |-> "milestone",
                      text |-> "trapdoor"]>>],
       [id |-> 3, title |-> "Old Lighthouse Mystery", status |-> "active",
        assigned |-> "Thorne", created |-> t3, events |-> <<>>] >>

\* index of the quest with the given id: quests.find(x => x.id === id)
FindQuest(qs, id) == CHOOSE i \in 1..Len(qs) : qs[i].id = id

\* the characters page is another document: not loaded
CharsNotLoaded ==
    /\ characters = <<>>
    /\ selectedCharId = 0
    /\ storedChars = <<>>
    /\ cOps = 0
    /\ chProf = 0
    /\ cNextId = 1

\* loadQuests(); renderQuestList(); renderGlobalTimeline(): storage is empty (the
\* samples are seeded) or holds text that does not parse (the list starts empty)
InitQuests ==
    /\ PageInit
    /\ variant = 1
    /\ canWorklet = FALSE
    /\ CharsNotLoaded
    /\ InvNotLoaded
    /\ LoadsNotTraced
    /\ \E seeded \in BOOLEAN :
          quests = IF seeded THEN SeedQuests(0, 0, 0) ELSE <<>>
    /\ qClock = 0
    /\ storedQuests = quests
    /\ globalTimeline = RenderGlobalTimeline(quests)
    /\ qNextId = 4
    /\ qOps = 0
    /\ selectedQuestId = 0

dashUnchanged ==
    UNCHANGED <<variant, txState, log, made, timeline, questList, questSeen,
                wsOpened, pending, isListening, audioWs, audioContext, workletNode,
                procNode, liveUi, sockets, contexts, calls, stops, canWorklet,
                inventory, selectedId, storedInv, iNextId, iOps, storage, pages>>

\* btnNew click: prompt for a title; an empty title returns
NewQuest(title) ==
    /\ last' = Op("newQuest", NoPayload, FALSE)
    /\ IF title = ""
       THEN UNCHANGED questVars
       ELSE /\ qOps < MaxQuestOps
            /\ qOps' = qOps + 1
            /\ LET q == [id |-> qNextId, title |-> title, status |-> "active",
                         assigned |-> "", created |-> qClock, events |-> <<>>]
                   qs == <<q>> \o quests
                   sv == SaveQuests(qs, globalTimeline)
               IN /\ quests' = qs
                  /\ storedQuests' = sv.stored
                  /\ globalTimeline' = sv.shown
                  /\ selectedQuestId' = q.id
            /\ qNextId' = qNextId + 1
            /\ UNCHANGED qClock
    /\ UNCHANGED charVars
    /\ dashUnchanged

\* eventForm submit
AddEvent(text, type) ==
    /\ last' = Op("addEvent", NoPayload, FALSE)
    /\ IF selectedQuestId = 0 \/ text = ""
       THEN UNCHANGED questVars
       ELSE /\ qOps < MaxQuestOps
            /\ qOps' = qOps + 1
            /\ LET i  == FindQuest(quests, selectedQuestId)
                   ev == [id |-> EventId(qNextId), ts |-> qClock, type |-> type,
                          text |-> text]
                   qs == [quests EXCEPT ![i].events = Append(@, ev)]
                   sv == SaveQuests(qs, globalTimeline)
               IN /\ quests' = qs
                  /\ storedQuests' = sv.stored
                  /\ globalTimeline' = RenderGlobalTimeline(qs)
            /\ qNextId' = qNextId + 1
            /\ UNCHANGED <<selectedQuestId, qClock>>
    /\ UNCHANGED charVars
    /\ dashUnchanged

\* a quest handler that rewrites one field of the selected quest, then
\* saveQuests(); selectQuest(q.id)
UpdateSelected(qs) ==
    LET sv == SaveQuests(qs, globalTimeline)
    IN /\ qOps < MaxQuestOps
       /\ qOps' = qOps + 1
       /\ quests' = qs
       /\ storedQuests' = sv.stored
       /\ globalTimeline' = sv.shown
       /\ UNCHANGED <<selectedQuestId, qClock, qNextId>>

\* assignChar change
AssignChar(name) ==
    /\ last' = Op("assign", NoPayload, FALSE)
    /\ IF selectedQuestId = 0
       THEN UNCHANGED questVars
       ELSE UpdateSelected([quests EXCEPT
                              ![FindQuest(quests, selectedQuestId)].assigned = name])
    /\ UNCHANGED charVars
    /\ dashUnchanged

\* btnComplete click
CompleteQuest ==
    /\ last' = Op("complete", NoPayload, FALSE)
    /\ IF selectedQuestId = 0
       THEN UNCHANGED questVars
       ELSE UpdateSelected([quests EXCEPT
                              ![FindQuest(quests, selectedQuestId)].status = "completed"])
    /\ UNCHANGED charVars
    /\ dashUnchanged

\* btnAbandon click
AbandonQuest ==
    /\ last' = Op("abandon", NoPayload, FALSE)
    /\ IF selectedQuestId = 0
       THEN UNCHANGED questVars
       ELSE UpdateSelected([quests EXCEPT
                              ![FindQuest(quests, selectedQuestId)].status = "failed"])
    /\ UNCHANGED charVars
    /\ dashUnchanged

\* click on a quest card: selectQuest(id)
SelectQuest(i) ==
    /\ i \in 1..Len(quests)
    /\ selectedQuestId' = quests[i].id
    /\ last' = Op("selectQuest", NoPayload, FALSE)
    /\ UNCHANGED <<quests, globalTimeline, storedQuests, qClock, qNextId, qOps>>
    /\ UNCHANGED charVars
    /\ dashUnchanged

\* time passes between two handlers
QuestClockTick ==
    /\ qClock < MaxClock
    /\ qClock' = qClock + 1
    /\ last' = Op("tick", NoPayload, FALSE)
    /\ UNCHANGED <<quests, selectedQuestId, globalTimeline, storedQuests, qNextId, qOps>>
    /\ UNCHANGED charVars
    /\ dashUnchanged

NextQuestPage ==
    \/ \E title \in {"", "A"} : NewQuest(title)
    \/ \E text \in {"", "met the keeper"}, type \in {"dialogue"} : AddEvent(text, type)
    \/ \E name \in {"Kyra"} : AssignChar(name)
    \/ CompleteQuest
    \/ AbandonQuest
    \/ \E i \in 1..(2 + MaxQuestOps) : SelectQuest(i)
    \/ QuestClockTick

SpecQuestPage == InitQuests /\ [][NextQuestPage]_vars

----------------------------------------------------------------------------
(* Characters page (characters.js): the character sheet *)

\* concentratingOn: null
NoSpell == ""

Max(a, b) == IF a > b THEN a ELSE b

\* the sample characters of loadChars
SeedChars ==
    << [id |-> 1, name |-> "Kyra", level |-> 3, hp |-> 18, maxHp |-> 18,
        hitDie |-> 8, hitDice |-> 3, con |-> 14, conditions |-> <<>>,
        spells |-> <<[name |-> "Hex", conc |-> TRUE],
                     [name |-> "Eldritch Blast", conc |-> FALSE]>>,
        concentratingOn |-> NoSpell],
       [id |-> 2, name |-> "Thorne", level |-> 2, hp |-> 14, maxHp |-> 14,
        hitDie |-> 8, hitDice |-> 2, con |-> 12, conditions |-> <<>>,
        spells |-> <<>>, concentratingOn |-> NoSpell],
       [id |-> 3, name |-> "Seren", level |-> 3, hp |-> 22, maxHp |-> 22,
        hitDie |-> 8, hitDice |-> 3, con |-> 14, conditions |-> <<>>,
        spells |-> <<[name |-> "Bless", conc |-> TRUE]>>,
        concentratingOn |-> NoSpell] >>

\* what the user types into prompt(); "cancel" is the dismissed dialog (null)
PromptInputs == {"cancel", "abc", "-2", "6", "25"}

\* the IEEE value Infinity; no finite number of the model comes near it
Infinity == 1000000

\* the numerals of the levels 1 to 20
Numerals == <<"1", "2", "3", "4", "5", "6", "7", "8", "9", "10",
              "11", "12", "13", "14", "15", "16", "17", "18", "19", "20">>

\* Number(text): null and the empty text convert to 0, other text that is not a
\* numeral to NaN
ToNumber(text) ==
    CASE text = "cancel" -> [nan |-> FALSE, val |-> 0]
      [] \E n \in 1..Len(Numerals) : Numerals[n] = text ->
            [nan |-> FALSE, val |-> CHOOSE n \in 1..Len(Numerals) : Numerals[n] = text]
      [] text = ""       -> [nan |-> FALSE, val |-> 0]
      [] text = "-2"     -> [nan |-> FALSE, val |-> -2]
      [] text = "Infinity" -> [nan |-> FALSE, val |-> Infinity]
      [] text = "25"     -> [nan |-> FALSE, val |-> 25]
      [] OTHER           -> [nan |-> TRUE, val |-> 0]

\* the faces rollD20() can show
D20 == 1..20

\* the operation record of a sheet handler: the typed text, its conversion, and the
\* d20 face thrown (0: no die was thrown)
SheetArg(text, roll) ==
    [input |-> text, nan |-> ToNumber(text).nan, amount |-> ToNumber(text).val,
     roll |-> roll]

CalcProfLateSteps(level) ==
    IF level > 17 THEN 6
    ELSE IF level > 13 THEN 5
    ELSE IF level > 9 THEN 4
    ELSE IF level > 5 THEN 3
    ELSE 2

\* calcProf(level)
CalcProf(level) ==
    IF level >= 17 THEN 6
    ELSE IF level >= 13 THEN 5
    ELSE IF level >= 9 THEN 4
    ELSE IF level >= 5 THEN 3
    ELSE 2

\* Math.floor((score - 10) / 2)
AbilityMod(score) == (score - 10) \div 2

ConcentrationDCHalf(dmg) == dmg \div 2

\* Math.max(10, Math.floor(dmg / 2))
ConcentrationDC(dmg) == Max(10, dmg \div 2)

DamageHpUnfloored(c, dmg) == c.hp - dmg

\* Math.max(0, c.hp - dmg)
DamageHp(c, dmg) == Max(0, c.hp - dmg)

HealHpUncapped(c, amt) == c.hp + amt

\* Math.min(c.maxHp, c.hp + amt)
HealHp(c, amt) == Min(c.maxHp, c.hp + amt)

\* index of the character with the given id: characters.find(x => x.id === id)
FindChar(cs, id) == CHOOSE i \in 1..Len(cs) : cs[i].id = id

\* the quests page is another document: not loaded
QuestsNotLoaded ==
    /\ quests = <<>>
    /\ selectedQuestId = 0
    /\ globalTimeline = <<>>
    /\ storedQuests = <<>>
    /\ qClock = 0
    /\ qNextId = 1
    /\ qOps = 0

\* loadChars(); renderRoster(): storage is empty and the samples are seeded
InitChars ==
    /\ PageInit
    /\ variant = 1
    /\ canWorklet = FALSE
    /\ QuestsNotLoaded
    /\ InvNotLoaded
    /\ LoadsNotTraced
    /\ characters = SeedChars
    /\ storedChars = characters
    /\ selectedCharId = 0
    /\ cOps = 0
    /\ chProf = 0
    /\ cNextId = 4

sheetFrame ==
    /\ UNCHANGED questVars
    /\ dashUnchanged

\* a sheet handler that rewrote the selected character, then
\* saveChars(); selectChar(selectedCharId)
StoreChars(cs) ==
    /\ cOps < MaxCharOps
    /\ cOps' = cOps + 1
    /\ characters' = cs
    /\ storedChars' = cs
    /\ chProf' = CalcProf(cs[FindChar(cs, selectedCharId)].level)
    /\ UNCHANGED <<selectedCharId, cNextId>>

\* click on a roster card: selectChar(id)
SelectChar(i) ==
    /\ i \in 1..Len(characters)
    /\ selectedCharId' = characters[i].id
    /\ chProf' = CalcProf(characters[i].level)
    /\ last' = Op("selectChar", SheetArg("", 0), FALSE)
    /\ UNCHANGED <<characters, storedChars, cOps, cNextId>>
    /\ sheetFrame

\* click on the Cast / Stop button of the k-th spell of the selected character
CastToggle(k) ==
    /\ selectedCharId # 0
    /\ LET i == FindChar(characters, selectedCharId)
           c == characters[i]
       IN /\ k \in 1..Len(c.spells)
          /\ StoreChars([characters EXCEPT ![i].concentratingOn =
                            IF c.concentratingOn = c.spells[k].name
                            THEN NoSpell ELSE c.spells[k].name])
    /\ last' = Op("cast", SheetArg("", 0), FALSE)
    /\ sheetFrame

\* btnDamage click; roll is the face rollD20() shows, 0 when it is not called
Damage(text, roll) ==
    LET dmg == ToNumber(text)
    IN /\ last' = Op("damage", SheetArg(text, roll), FALSE)
       /\ IF selectedCharId = 0 \/ dmg.nan
          THEN /\ roll = 0
               /\ UNCHANGED charVars
          ELSE LET i  == FindChar(characters, selectedCharId)
                   c  == characters[i]
                   c1 == [c EXCEPT !.hp = DamageHp(c, dmg.val)]
               IN IF c1.concentratingOn # NoSpell
                  THEN /\ roll \in D20
                       /\ LET dc      == ConcentrationDC(dmg.val)
                              total   == roll + AbilityMod(c1.con) + CalcProf(c1.level)
                              success == total >= dc
                          IN StoreChars([characters EXCEPT ![i] =
                                IF success THEN c1
                                ELSE [c1 EXCEPT !.concentratingOn = NoSpell]])
                  ELSE /\ roll = 0
                       /\ StoreChars([characters EXCEPT ![i] = c1])
       /\ sheetFrame

\* btnHeal click
Heal(text) ==
    LET amt == ToNumber(text)
    IN /\ last' = Op("heal", SheetArg(text, 0), FALSE)
       /\ IF selectedCharId = 0 \/ amt.nan
          THEN UNCHANGED charVars
          ELSE LET i == FindChar(characters, selectedCharId)
               IN StoreChars([characters EXCEPT ![i].hp = HealHp(characters[i], amt.val)])
       /\ sheetFrame

\* btnConCheck click
ConCheck(text, roll) ==
    LET dmg == ToNumber(text)
    IN /\ last' = Op("conCheck", SheetArg(text, roll), FALSE)
       /\ IF selectedCharId = 0 \/ dmg.nan \/ dmg.val <= 0
          THEN /\ roll = 0
               /\ UNCHANGED charVars
          ELSE LET i == FindChar(characters, selectedCharId)
                   c == characters[i]
               IN IF c.concentratingOn = NoSpell
                  THEN /\ roll = 0
                       /\ UNCHANGED charVars
                  ELSE /\ roll \in D20
                       /\ LET dc    == ConcentrationDC(dmg.val)
                              total == roll + AbilityMod(c.con)
                          IN StoreChars([characters EXCEPT ![i].concentratingOn =
                                IF total >= dc THEN @ ELSE NoSpell])
       /\ sheetFrame

NextChars ==
    \/ \E i \in 1..Len(SeedChars) : SelectChar(i)
    \/ \E k \in 1..2 : CastToggle(k)
    \/ \E text \in PromptInputs, roll \in {0} \cup D20 : Damage(text, roll)
    \/ \E text \in PromptInputs : Heal(text)
    \/ \E text \in PromptInputs, roll \in {0} \cup D20 : ConCheck(text, roll)

SpecChars == InitChars /\ [][NextChars]_vars

----------------------------------------------------------------------------
(* Characters page: rests and the roster (new, edit, delete, import) *)

\* the operation record of a short rest: the typed text and the dice spent
RestArg(text, dice) ==
    [input |-> text, nan |-> ToNumber(text).nan, amount |-> ToNumber(text).val,
     roll |-> 0, dice |-> dice]

\* the sums n throws of rollDie(sides) can give, each throw counted as
\* Math.max(0, roll + mod)
RECURSIVE DiceTotals(_, _, _)
DiceTotals(n, sides, mod) ==
    IF n <= 0 THEN {0}
    ELSE {a + Max(0, r + mod) : a \in DiceTotals(n - 1, sides, mod), r \in 1..sides}

\* c.hitDice || Math.max(1, Math.floor(c.level / 2))
MaxPossible(c) == IF c.hitDice # 0 THEN c.hitDice ELSE Max(1, c.level \div 2)

\* Math.ceil((c.level || 1) / 2)
Recovered(c) == ((IF c.level # 0 THEN c.level ELSE 1) + 1) \div 2

LongRestedKeepsConditions(c) ==
    [c EXCEPT !.hp = c.maxHp,
              !.hitDice = Min(c.level, c.hitDice + Recovered(c)),
              !.concentratingOn = NoSpell]

\* the character after btnLongRest
LongRested(c) ==
    [c EXCEPT !.hp = c.maxHp,
              !.hitDice = Min(c.level, c.hitDice + Recovered(c)),
              !.conditions = <<>>,
              !.concentratingOn = NoSpell]

\* btnShortRest click
ShortRest(text) ==
    LET spent == ToNumber(text)
    IN /\ IF selectedCharId = 0 \/ spent.nan \/ spent.val <= 0
          THEN /\ last' = Op("shortRest", RestArg(text, 0), FALSE)
               /\ UNCHANGED charVars
          ELSE LET i == FindChar(characters, selectedCharId)
                   c == characters[i]
                   maxPossible == MaxPossible(c)
                   toSpend == Min(maxPossible, spent.val)
               IN /\ last' = Op("shortRest", RestArg(text, toSpend), FALSE)
                  /\ \E total \in DiceTotals(toSpend, c.hitDie, AbilityMod(c.con)) :
                        StoreChars([characters EXCEPT
                           ![i].hp = Min(c.maxHp, c.hp + total),
                           ![i].hitDice =
                              (IF c.hitDice # 0 THEN c.hitDice ELSE maxPossible)
                              - toSpend])
       /\ sheetFrame

\* btnLongRest click
LongRest ==
    /\ last' = Op("longRest", SheetArg("", 0), FALSE)
    /\ IF selectedCharId = 0
       THEN UNCHANGED charVars
       ELSE LET i == FindChar(characters, selectedCharId)
            IN StoreChars([characters EXCEPT ![i] = LongRested(characters[i])])
    /\ sheetFrame

\* Number(prompt(...)) || fallback
NumberOr(text, fallback) ==
    IF ToNumber(text).nan \/ ToNumber(text).val = 0 THEN fallback
    ELSE ToNumber(text).val

\* btnNewChar click: the name, then level, max HP and constitution are prompted
NewChar(name, levelText, maxHpText, conText) ==
    /\ last' = Op("newChar", SheetArg(levelText, 0), FALSE)
    /\ IF name = ""
       THEN UNCHANGED charVars
       ELSE LET level == NumberOr(levelText, 1)
                maxHp == NumberOr(maxHpText, 8)
                c == [id |-> cNextId, name |-> name, level |-> level, hp |-> maxHp,
                      maxHp |-> maxHp, hitDie |-> 8,
                      hitDice |-> Max(1, level \div 2), con |-> NumberOr(conText, 12),
                      conditions |-> <<>>, spells |-> <<>>,
                      concentratingOn |-> NoSpell]
            IN /\ cOps < MaxCharOps
               /\ cOps' = cOps + 1
               /\ characters' = Append(characters, c)
               /\ storedChars' = characters'
               /\ cNextId' = cNextId + 1
               /\ selectedCharId' = c.id
               /\ chProf' = CalcProf(c.level)
    /\ sheetFrame

\* btnEditChar click: an empty or dismissed name prompt returns
EditChar(name, levelText, maxHpText) ==
    /\ last' = Op("editChar", SheetArg(levelText, 0), FALSE)
    /\ IF selectedCharId = 0 \/ name = ""
       THEN UNCHANGED charVars
       ELSE LET i == FindChar(characters, selectedCharId)
                c == characters[i]
                maxHp == NumberOr(maxHpText, c.maxHp)
            IN StoreChars([characters EXCEPT
                  ![i].name = name,
                  ![i].level = NumberOr(levelText, c.level),
                  ![i].maxHp = maxHp,
                  ![i].hp = Min(c.hp, maxHp)])
    /\ sheetFrame

\* btnDeleteChar click
DeleteChar(confirmed) ==
    /\ last' = Op("deleteChar", SheetArg("", 0), FALSE)
    /\ IF selectedCharId = 0 \/ ~confirmed
       THEN UNCHANGED charVars
       ELSE /\ cOps < MaxCharOps
            /\ cOps' = cOps + 1
            /\ characters' = SelectSeq(characters, LAMBDA x : x.id # selectedCharId)
            /\ storedChars' = characters'
            /\ selectedCharId' = 0
            /\ UNCHANGED <<chProf, cNextId>>
    /\ sheetFrame

\* click on the k-th condition pill of the selected character
RemoveCondition(k, confirmed) ==
    /\ selectedCharId # 0
    /\ last' = Op("removeCondition", SheetArg("", 0), FALSE)
    /\ LET i == FindChar(characters, selectedCharId)
           c == characters[i]
       IN /\ k \in 1..Len(c.conditions)
          /\ IF ~confirmed
             THEN UNCHANGED charVars
             ELSE StoreChars([characters EXCEPT ![i].conditions =
                     SelectSeq(c.conditions, LAMBDA x : x # c.conditions[k])])
    /\ sheetFrame

\* the files offered to the import dialog: text that is not JSON, JSON that is not
\* an array, and a roster of one character without an id
CharFiles == {"garbage", "object", "roster"}

FileRoster ==
    << [id |-> 0, name |-> "Brom", level |-> 4, hp |-> 5, maxHp |-> 30,
        hitDie |-> 10, hitDice |-> 1, con |-> 14, conditions |-> <<"poisoned">>,
        spells |-> <<[name |-> "Bless", conc |-> TRUE]>>,
        concentratingOn |-> "Bless"] >>

AssignIdsNone(data, next) == data

\* for (let c of data) c.id = c.id || uid(), the ids drawn from next on
RECURSIVE AssignIds(_, _)
AssignIds(data, next) ==
    IF data = <<>> THEN <<>>
    ELSE IF Head(data).id = 0
    THEN <<[Head(data) EXCEPT !.id = next]>> \o AssignIds(Tail(data), next + 1)
    ELSE <<Head(data)>> \o AssignIds(Tail(data), next)

\* the number of ids AssignIds draws
LackingIds(data) == Len(SelectSeq(data, LAMBDA x : x.id = 0))

\* btnImportChars: the reader's onload callback
ImportChars(file) ==
    /\ last' = Op("importChars", SheetArg(file, 0), FALSE)
    /\ IF file # "roster"
       THEN UNCHANGED charVars
       ELSE /\ cOps < MaxCharOps
            /\ cOps' = cOps + 1
            /\ characters' = AssignIds(FileRoster, cNextId) \o characters
            /\ storedChars' = characters'
            /\ cNextId' = cNextId + LackingIds(FileRoster)
            /\ UNCHANGED <<selectedCharId, chProf>>
    /\ sheetFrame

NextSheet ==
    \/ \E i \in 1..(Len(SeedChars) + MaxCharOps) : SelectChar(i)
    \/ \E k \in 1..2 : CastToggle(k)
    \/ \E text \in {"-2", "6", "25"}, roll \in {0, 1, 7, 8, 20} : Damage(text, roll)
    \/ \E text \in {"abc", "-2", "25"} : Heal(text)
    \/ \E text \in {"6"}, roll \in {0, 7, 8} : ConCheck(text, roll)
    \/ \E text \in {"cancel", "abc", "1", "25"} : ShortRest(text)
    \/ LongRest
    \/ \E name \in {"", "Brom"}, levelText \in {"cancel", "-2", "6"} :
          NewChar(name, levelText, "abc", "cancel")
    \/ \E name \in {"", "Kyra"}, levelText \in {"abc", "1"},
          maxHpText \in {"cancel", "6"} : EditChar(name, levelText, maxHpText)
    \/ \E confirmed \in BOOLEAN : DeleteChar(confirmed)
    \/ \E k \in 1..1, confirmed \in BOOLEAN : RemoveCondition(k, confirmed)
    \/ \E file \in CharFiles : ImportChars(file)

SpecSheet == InitChars /\ [][NextSheet]_vars

\* the characters page loaded from stored text that does not parse: the roster
\* starts empty
InitProf ==
    /\ PageInit
    /\ variant = 1
    /\ canWorklet = FALSE
    /\ QuestsNotLoaded
    /\ InvNotLoaded
    /\ LoadsNotTraced
    /\ characters = <<>>
    /\ storedChars = <<>>
    /\ selectedCharId = 0
    /\ cOps = 0
    /\ chProf = 0
    /\ cNextId = 1

\* characters of every level from 1 to 20 are created, shown and deleted
NextProf ==
    \/ \E name \in {"", "Brom"}, n \in 1..Len(Numerals) :
          NewChar(name, Numerals[n], "cancel", "cancel")
    \/ \E i \in 1..MaxCharOps : SelectChar(i)
    \/ \E confirmed \in BOOLEAN : DeleteChar(confirmed)

SpecProf == InitProf /\ [][NextProf]_vars

----------------------------------------------------------------------------
(* Inventory page (inventory.js, first script) *)

\* sampleItems, their ids drawn when the script loads
SampleItems ==
    << [id |-> 1, name |-> "Shortsword", type |-> "weapon", weight |-> 2,
        qty |-> 1, equipped |-> TRUE],
       [id |-> 2, name |-> "Leather Armor", type |-> "armor", weight |-> 10,
        qty |-> 1, equipped |-> TRUE],
       [id |-> 3, name |-> "Healing Potion", type |-> "consumable", weight |-> 0,
        qty |-> 3, equipped |-> FALSE],
       [id |-> 4, name |-> "Cloak of Elvenkind", type |-> "magic", weight |-> 1,
        qty |-> 1, equipped |-> FALSE] >>

\* the value null in a decoded number field
JsonNull == -1000000

\* what JSON.parse gives back for a number JSON.stringify wrote: a number that is
\* not finite is written as null
JsonNumber(x) == IF x = Infinity THEN JsonNull ELSE x

\* JSON.parse(JSON.stringify(items))
JsonItems(items) ==
    [k \in 1..Len(items) |->
        [items[k] EXCEPT !.qty = JsonNumber(@), !.weight = JsonNumber(@)]]

\* index of the item with the given id, 0 when inventory.find gives undefined
FindItem(items, id) ==
    IF \E i \in 1..Len(items) : items[i].id = id
    THEN CHOOSE i \in 1..Len(items) : items[i].id = id
    ELSE 0

\* the operation record of an inventory handler
InvArg(text, alerted) == [input |-> text, alert |-> alerted]

\* loadInventory() with nothing stored: the samples are taken and saved
InitInv ==
    /\ PageInit
    /\ variant = 1
    /\ canWorklet = FALSE
    /\ QuestsNotLoaded
    /\ CharsNotLoaded
    /\ LoadsNotTraced
    /\ inventory = SampleItems
    /\ storedInv = JsonItems(inventory)
    /\ selectedId = 0
    /\ iNextId = Len(SampleItems) + 1
    /\ iOps = 0

invFrame ==
    /\ UNCHANGED questVars
    /\ UNCHANGED charVars
    /\ UNCHANGED loadVars
    /\ UNCHANGED <<variant, txState, log, made, timeline, questList, questSeen,
                   wsOpened, pending, isListening, audioWs, audioContext,
                   workletNode, procNode, liveUi, sockets, contexts, calls, stops,
                   canWorklet>>

\* the inventory was changed: saveInventory()
SaveInventory(items) ==
    /\ iOps < MaxInvOps
    /\ iOps' = iOps + 1
    /\ inventory' = items
    /\ storedInv' = JsonItems(items)

\* click on an item of the list: selectItem(id)
SelectItem(i) ==
    /\ i \in 1..Len(inventory)
    /\ selectedId' = inventory[i].id
    /\ last' = Op("selectItem", InvArg("", FALSE), FALSE)
    /\ UNCHANGED <<inventory, storedInv, iNextId, iOps>>
    /\ invFrame

\* btnUse click
UseItem ==
    /\ last' = Op("use", InvArg("", FALSE), FALSE)
    /\ LET i == FindItem(inventory, selectedId)
       IN IF selectedId = 0 \/ i = 0 \/ inventory[i].qty <= 0
          THEN UNCHANGED invVars
          ELSE /\ SaveInventory([inventory EXCEPT ![i].qty =
                     IF @ = Infinity THEN Infinity ELSE Max(0, @ - 1)])
               /\ UNCHANGED <<selectedId, iNextId>>
    /\ invFrame

\* btnToggleEquip click
ToggleEquip ==
    /\ last' = Op("toggleEquip", InvArg("", FALSE), FALSE)
    /\ LET i == FindItem(inventory, selectedId)
       IN IF selectedId = 0 \/ i = 0
          THEN UNCHANGED invVars
          ELSE /\ SaveInventory([inventory EXCEPT ![i].equipped = ~@])
               /\ UNCHANGED <<selectedId, iNextId>>
    /\ invFrame

\* btnDelete click
DeleteItem ==
    /\ last' = Op("deleteItem", InvArg("", FALSE), FALSE)
    /\ IF selectedId = 0
       THEN UNCHANGED invVars
       ELSE /\ SaveInventory(SelectSeq(inventory, LAMBDA x : x.id # selectedId))
            /\ selectedId' = 0
            /\ UNCHANGED iNextId
    /\ invFrame

\* btnEdit click: name is the text of the first prompt ("cancel": dismissed), the
\* description and type prompts are dismissed
EditItem(name, qtyText, weightText) ==
    /\ last' = Op("editItem", InvArg(qtyText, FALSE), FALSE)
    /\ LET i == FindItem(inventory, selectedId)
       IN IF selectedId = 0 \/ i = 0 \/ name = "cancel"
          THEN UNCHANGED invVars
          ELSE /\ SaveInventory([inventory EXCEPT
                     ![i].name = name,
                     ![i].qty = NumberOr(qtyText, @),
                     ![i].weight = NumberOr(weightText, @)])
               /\ UNCHANGED <<selectedId, iNextId>>
    /\ invFrame

\* parseInt(text) || 1: parseInt reads no "Infinity"
ParseIntOr1(text) ==
    IF ToNumber(text).nan \/ ToNumber(text).val = 0 \/ ToNumber(text).val = Infinity
    THEN 1 ELSE ToNumber(text).val

\* addForm submit
AddItem(name, qtyText) ==
    IF name = ""
    THEN /\ last' = Op("addItem", InvArg(qtyText, TRUE), FALSE)
         /\ UNCHANGED invVars
         /\ invFrame
    ELSE /\ last' = Op("addItem", InvArg(qtyText, FALSE), FALSE)
         /\ SaveInventory(<<[id |-> iNextId, name |-> name, type |-> "misc",
                             weight |-> 0, qty |-> ParseIntOr1(qtyText),
                             equipped |-> FALSE]>> \o inventory)
         /\ iNextId' = iNextId + 1
         /\ UNCHANGED selectedId
         /\ invFrame

\* for (let s of sampleItems) inventory.unshift({...s, id: uid()})
RECURSIVE UnshiftSamples(_, _, _)
UnshiftSamples(items, samples, next) ==
    IF samples = <<>> THEN items
    ELSE UnshiftSamples(<<[Head(samples) EXCEPT !.id = next]>> \o items,
                        Tail(samples), next + 1)

\* btnSeed click
SeedItems(confirmed) ==
    /\ last' = Op("seed", InvArg("", FALSE), FALSE)
    /\ IF ~confirmed
       THEN UNCHANGED invVars
       ELSE /\ SaveInventory(UnshiftSamples(inventory, SampleItems, iNextId))
            /\ iNextId' = iNextId + Len(SampleItems)
            /\ UNCHANGED selectedId
    /\ invFrame

\* the files offered to the import dialog: text that is not JSON, JSON that is not
\* an array, an array holding null, and an array of two items, the first without
\* an id
ItemFiles == {"garbage", "object", "nullEntry", "items"}

FileItems ==
    << [id |-> 0, name |-> "Rope", type |-> "misc", weight |-> 5, qty |-> 1,
        equipped |-> FALSE],
       [id |-> 100, name |-> "Lantern", type |-> "misc", weight |-> 2, qty |-> 1,
        equipped |-> FALSE] >>

\* btnImport: the reader's onload callback; every failure inside try is caught
\* and alerted
ImportItems(file) ==
    /\ IF file # "items"
       THEN /\ last' = Op("importItems", InvArg(file, TRUE), FALSE)
            /\ UNCHANGED invVars
       ELSE /\ last' = Op("importItems", InvArg(file, FALSE), FALSE)
            /\ SaveInventory(AssignIds(FileItems, iNextId) \o inventory)
            /\ iNextId' = iNextId + LackingIds(FileItems)
            /\ UNCHANGED selectedId
    /\ invFrame

\* btnClear click
ClearItems(confirmed) ==
    /\ last' = Op("clear", InvArg("", FALSE), FALSE)
    /\ IF ~confirmed
       THEN UNCHANGED invVars
       ELSE /\ SaveInventory(<<>>)
            /\ UNCHANGED <<selectedId, iNextId>>
    /\ invFrame

NextInv ==
    \/ \E i \in 1..(2 * Len(SampleItems) + MaxInvOps) : SelectItem(i)
    \/ UseItem
    \/ ToggleEquip
    \/ DeleteItem
    \/ \E name \in {"cancel", "Dagger"}, qtyText \in {"cancel", "abc", "-2", "6", "Infinity"} :
          EditItem(name, qtyText, "cancel")
    \/ \E name \in {"", "Torch"}, qtyText \in {"abc", "6"} : AddItem(name, qtyText)
    \/ \E confirmed \in BOOLEAN : SeedItems(confirmed)
    \/ \E file \in ItemFiles : ImportItems(file)
    \/ \E confirmed \in BOOLEAN : ClearItems(confirmed)

SpecInv == InitInv /\ [][NextInv]_vars

----------------------------------------------------------------------------
(* The three load functions, run when their pages open *)

\* what getItem can find under a key: nothing, text that does not parse, or the
\* JSON text of an earlier save
StorageKinds == {"absent", "garbage", "json"}

\* collections saved by an earlier visit
SavedInventory == <<SampleItems[1]>>
SavedQuests == <<SeedQuests(0, 0, 0)[2]>>
SavedChars == <<SeedChars[2]>>

\* the demo characters renderCharMiniRow stores when the key is absent
DemoChars ==
    << [id |-> 1, name |-> "Kyra", cls |-> "Warlock", level |-> 1],
       [id |-> 2, name |-> "Thorne", cls |-> "Rogue", level |-> 1],
       [id |-> 3, name |-> "Seren", cls |-> "Cleric", level |-> 1] >>

\* no page is open; each key holds nothing, broken text or an earlier save
InitLoad ==
    /\ PageInit
    /\ variant = 1
    /\ canWorklet = FALSE
    /\ storage \in [StorageKeys -> StorageKinds]
    /\ pages = {}
    /\ inventory = <<>>
    /\ selectedId = 0
    /\ storedInv = IF storage["ds_inventory_v1"] = "json" THEN SavedInventory ELSE <<>>
    /\ iNextId = Len(SampleItems) + 1
    /\ iOps = 0
    /\ quests = <<>>
    /\ selectedQuestId = 0
    /\ globalTimeline = <<>>
    /\ storedQuests = IF storage["ds_quests_v1"] = "json" THEN SavedQuests ELSE <<>>
    /\ qClock = 0
    /\ qNextId = 4
    /\ qOps = 0
    /\ characters = <<>>
    /\ selectedCharId = 0
    /\ storedChars = IF storage["ds_characters_v1"] = "json" THEN SavedChars ELSE <<>>
    /\ cOps = 0
    /\ chProf = 0
    /\ cNextId = 4

loadFrame ==
    UNCHANGED <<variant, txState, log, made, timeline, questList, questSeen,
                wsOpened, pending, isListening, audioWs, audioContext, workletNode,
                procNode, liveUi, sockets, contexts, calls, stops, canWorklet>>

\* the inventory page opens: loadInventory(); ...; renderCharMiniRow()
LoadInventory ==
    LET found == storage["ds_inventory_v1"]
    IN /\ "inventory" \notin pages
       /\ pages' = pages \cup {"inventory"}
       /\ last' = Op("loadInventory", InvArg(found, FALSE), FALSE)
       /\ inventory' = IF found = "json" THEN storedInv ELSE SampleItems
       /\ storedInv' = IF found = "json" THEN storedInv ELSE JsonItems(SampleItems)
       /\ storedChars' = IF storage["ds_characters_v1"] = "absent"
                         THEN DemoChars ELSE storedChars
       /\ storage' = [storage EXCEPT
                         !["ds_inventory_v1"] = "json",
                         !["ds_characters_v1"] = IF @ = "absent" THEN "json" ELSE @]
       /\ UNCHANGED <<selectedId, iNextId, iOps>>
       /\ UNCHANGED questVars
       /\ UNCHANGED <<characters, selectedCharId, cOps, chProf, cNextId>>
       /\ loadFrame

\* quests after loadQuests(): the parsed save, the empty list when the text does
\* not parse, the samples when nothing is stored
LoadQuestsResult(found, saved) ==
    IF found = "json" THEN saved
    ELSE IF found = "garbage" THEN <<>>
    ELSE SeedQuests(0, 0, 0)

\* the quests page opens: loadQuests(); renderQuestList(); renderGlobalTimeline()
LoadQuests ==
    LET found == storage["ds_quests_v1"]
    IN /\ "quests" \notin pages
       /\ pages' = pages \cup {"quests"}
       /\ last' = Op("loadQuests", InvArg(found, FALSE), FALSE)
       /\ quests' = LoadQuestsResult(found, storedQuests)
       /\ storedQuests' = quests'
       /\ globalTimeline' = RenderGlobalTimeline(quests')
       /\ storage' = [storage EXCEPT !["ds_quests_v1"] = "json"]
       /\ UNCHANGED <<selectedQuestId, qClock, qNextId, qOps>>
       /\ UNCHANGED invVars
       /\ UNCHANGED charVars
       /\ loadFrame

\* the characters page opens: loadChars(); renderRoster()
LoadChars ==
    LET found == storage["ds_characters_v1"]
    IN /\ "characters" \notin pages
       /\ pages' = pages \cup {"characters"}
       /\ last' = Op("loadChars", InvArg(found, FALSE), FALSE)
       /\ characters' = IF found = "json" THEN storedChars
                        ELSE IF found = "garbage" THEN <<>>
                        ELSE SeedChars
       /\ storedChars' = characters'
       /\ storage' = [storage EXCEPT !["ds_characters_v1"] = "json"]
       /\ UNCHANGED <<selectedCharId, cOps, chProf, cNextId>>
       /\ UNCHANGED invVars
       /\ UNCHANGED questVars
       /\ loadFrame

NextLoad ==
    \/ LoadInventory
    \/ LoadQuests
    \/ LoadChars

SpecLoad == InitLoad /\ [][NextLoad]_vars

----------------------------------------------------------------------------
(* Properties *)

Controls == {"start", "pauseResume", "stop"}

\* the nodes of l2 that are not nodes of l1
Added(l1, l2) == {l2[j] : j \in 1..Len(l2)} \ {l1[i] : i \in 1..Len(l1)}

\* every node of l1 is still in l2, unchanged
Kept(l1, l2) == \A i \in 1..Len(l1) : \E j \in 1..Len(l2) : l2[j] = l1[i]

HasText(l, text) == \E i \in 1..Len(l) : l[i].body = <<text>>

\* the transition table of the transcription state machine
TableNext(s, a) ==
    CASE a = "start"       -> IF s \in {"idle", "paused"} THEN "recording" ELSE s
      [] a = "pauseResume" -> IF s = "recording" THEN "paused"
                              ELSE IF s = "paused" THEN "recording" ELSE "idle"
      [] a = "stop"        -> IF s \in {"recording", "paused"} THEN "idle" ELSE s

\* C1: every control action moves the transcription state as the table says
\* (start: idle, paused -> recording, recording stays; pauseResume: recording ->
\* paused, paused -> recording, idle stays; stop: recording, paused -> idle,
\* idle stays), nothing else changes the state, and the state is always one of
\* idle, recording, paused.
C1_TransitionTable ==
    [][ /\ txState' \in TxStates
        /\ last'.op \in Controls => txState' = TableNext(txState, last'.op)
        /\ last'.op \notin Controls => txState' = txState ]_vars

\* C1 witness: stop has brought a session that was started and paused back to idle
C1_Witness ==
    /\ last.op = "stop"
    /\ txState = "idle"
    /\ HasText(log, "Transcription paused.")
    /\ HasText(log, "Transcription stopped.")

\* the texts a control may log for the transition it makes
TransitionTexts(s, a) ==
    CASE a = "start"       -> {"Transcription started.", "Transcription resumed."}
      [] a = "pauseResume" -> IF s = "recording" THEN {"Transcription paused."}
                              ELSE {"Transcription resumed."}
      [] a = "stop"        -> {"Transcription stopped."}

\* C2: a control action that changes the transcription state adds exactly one
\* system log entry naming the transition and keeps every older entry; a control
\* action that is invalid in the current state leaves the state and the log
\* unchanged.
C2_OneLogPerTransition ==
    [][ last'.op \in Controls =>
          IF txState' # txState
          THEN /\ Len(log') = Len(log) + 1
               /\ Kept(log, log')
               /\ \A e \in Added(log, log') :
                     /\ e.avatar = "S"
                     /\ e.label = "System"
                     /\ \E t \in TransitionTexts(txState, last'.op) : e.body = <<t>>
               /\ Cardinality(Added(log, log')) = 1
          ELSE log' = log ]_vars

\* C2 witness: pauseResume has resumed a paused session and logged it
C2_Witness ==
    /\ last.op = "pauseResume"
    /\ txState = "recording"
    /\ HasText(log, "Transcription paused.")
    /\ HasText(log, "Transcription resumed.")

\* C3: stopLive while nothing is being recorded leaves the UI idle and adds no
\* log entry.
C3_StopIdleIsNoop ==
    [][ (last'.op \in {"liveStop", "livePause"} /\ ~isListening)
           => (liveUi' = "Idle" /\ log' = log) ]_vars

OpenSockets == {i \in 1..Len(sockets) : sockets[i] = "open"}
RunningContexts == {i \in 1..Len(contexts) : contexts[i].state = "running"}

\* a stopLive has run, every startLive invoked before it has finished and none
\* was invoked after it
StoppedAndSettled ==
    /\ stops > 0
    /\ \A c \in 1..MaxCalls :
          calls[c].pc = "new" \/ (calls[c].pc = "done" /\ ~calls[c].sinceStop)

\* C4: never two audio sockets open together; and once a stopLive has run and all
\* earlier startLive calls have finished, no audio socket or audio context is
\* open and the UI shows idle.
C4_StopLeavesNothingOpen ==
    /\ Cardinality(OpenSockets) <= 1
    /\ StoppedAndSettled =>
          (OpenSockets = {} /\ RunningContexts = {} /\ liveUi = "Idle")

\* C5 (as stated): no operation ever removes or changes a log entry.
C5_AppendOnly ==
    [][ Kept(log, log') ]_vars

\* C5 (amended): transcription controls, the socket open and inbound messages
\* never remove or change a log entry, and neither does a search with an empty
\* query or a failed request; a search whose response arrives replaces the whole
\* log by the rendered results.
C5_AppendOnlyExceptSearch ==
    [][ /\ last'.op # "searchDone" => Kept(log, log')
        /\ last'.op = "searchDone" =>
              /\ Added(log', log) = {log[i] : i \in 1..Len(log)}
              /\ \A j \in 1..Len(log') : log'[j].n > made /\ log'[j].label \in {"player", "world"} ]_vars

\* C5 witness: an inbound message was logged on top of older entries
C5_Witness ==
    /\ last.op = "wsMessage"
    /\ Len(log) >= 3
    /\ \E i \in 1..Len(log) : log[i].n = made /\ log[i].label = "Quest Update"

\* C6: the log has one insertion discipline: read from one end, the entries are
\* in the order in which they were produced.
C6_SingleInsertionEnd ==
    \/ \A i, j \in 1..Len(log) : i < j => log[i].n < log[j].n
    \/ \A i, j \in 1..Len(log) : i < j => log[i].n > log[j].n

IsQuestMessage(op) ==
    op.op = "wsMessage" /\ op.arg.valid /\ op.arg.hasHeading
    /\ op.arg.prefix = "Quest Update" /\ ~op.arg.colon

\* C7: for a Quest Update message the router adds exactly one log entry, exactly
\* one timeline entry tagged "Quest" that carries the quest name, and puts one
\* item for that quest at the head of the quest list, in front of the older items.
C7_QuestUpdateEffects ==
    [][ IsQuestMessage(last') =>
          /\ Len(log') = Len(log) + 1
          /\ Kept(log, log')
          /\ \A e \in Added(log, log') :
                e.label = "Quest Update"
                /\ e.body = <<last'.arg.quest_name, last'.arg.content>>
          /\ Len(timeline') = Len(timeline) + 1
          /\ timeline'[1].type = "Quest"
          /\ timeline'[1].title = last'.arg.quest_name
          /\ Tail(timeline') = timeline
          /\ Len(questList') >= 1
          /\ Len(questList') <= Len(questList) + 1
          /\ questList'[1].title = last'.arg.quest_name
          /\ questList'[1].update = last'.arg.content
          /\ Tail(questList') = SubSeq(questList, 1, Len(questList') - 1) ]_vars

\* C7 witness: a Quest Update message was routed while the quest list was full
C7_Witness ==
    /\ IsQuestMessage(last)
    /\ Len(questList) = 2
    /\ Len(questSeen) >= 3
    /\ questList[1].title # questList[2].title

\* C8: the quest list holds exactly min(2, k) items, k being the number of Quest
\* Update messages received so far, and they are the most recently received
\* quests, newest first.
C8_QuestListIsRecentTwo ==
    /\ Len(questList) = Min(2, Len(questSeen))
    /\ \A i \in 1..Len(questList) :
          i <= Len(questSeen) => questList[i].title = questSeen[i]

\* C9: each inbound message adds at most one entry to the log and at most one to
\* the timeline; a Quest Update message gets only the Quest Update entry and is
\* not processed by the World State or Character rules.
C9_FirstMatchWins ==
    [][ last'.op = "wsMessage" =>
          /\ Len(log') <= Len(log) + 1
          /\ made' <= made + 1
          /\ Kept(log, log')
          /\ Len(timeline') <= Len(timeline) + 1
          /\ IsQuestMessage(last') =>
                /\ \A e \in Added(log, log') : e.label = "Quest Update"
                /\ \A i \in 1..Len(timeline') :
                      timeline'[i].meta = "Location Changed"
                         => \E j \in 1..Len(timeline) : timeline[j] = timeline'[i] ]_vars

\* C9 witness: messages of all three rules have been routed, a Quest Update last
C9_Witness ==
    /\ IsQuestMessage(last)
    /\ \E i \in 1..Len(log) : log[i].label = "World State Update"
    /\ \E i \in 1..Len(log) : log[i].label = "Action"
    /\ \E i \in 1..Len(log) : log[i].label = "Quest Update"

IsWorldMessage(op) ==
    op.op = "wsMessage" /\ op.arg.valid /\ op.arg.hasHeading
    /\ op.arg.prefix = "World State Update" /\ ~op.arg.colon

\* C10: for a World State Update message the router adds exactly one world-update
\* log entry and exactly one "Location Changed" timeline entry, and leaves the
\* quest list unchanged.
C10_WorldUpdateEffects ==
    [][ IsWorldMessage(last') =>
          /\ Len(log') = Len(log) + 1
          /\ Kept(log, log')
          /\ Cardinality(Added(log, log')) = 1
          /\ \A e \in Added(log, log') :
                e.label = "World State Update" /\ e.body = <<last'.arg.content>>
          /\ Len(timeline') = Len(timeline) + 1
          /\ timeline'[1].meta = "Location Changed"
          /\ timeline'[1].title = last'.arg.location
          /\ Tail(timeline') = timeline
          /\ questList' = questList ]_vars

\* C10 witness: a World State Update was routed while quests were listed
C10_Witness ==
    /\ IsWorldMessage(last)
    /\ Len(questList) >= 1
    /\ timeline[1].meta = "Location Changed"

IsCharacterMessage(op) ==
    op.op = "wsMessage" /\ op.arg.valid /\ op.arg.hasHeading
    /\ op.arg.prefix \in {"Character Action", "Character Outcome"}

\* C11: for every message whose heading starts with "Character Action" or
\* "Character Outcome" the router adds exactly one log entry, narrator-styled when
\* the name in the heading is "narrator" in any letter case and player-styled
\* otherwise, and leaves the timeline and the quest list unchanged.
C11_CharacterEffects ==
    [][ IsCharacterMessage(last') =>
          /\ ~last'.threw
          /\ Len(log') = Len(log) + 1
          /\ Kept(log, log')
          /\ Cardinality(Added(log, log')) = 1
          /\ \A e \in Added(log, log') :
                IF last'.arg.name \in {"narrator", "Narrator", "NARRATOR"}
                THEN e.cls = "msg right" /\ e.avatar = "DM"
                ELSE e.cls = "msg left" /\ e.label \in {"Action", "Outcome"}
          /\ timeline' = timeline
          /\ questList' = questList ]_vars

MatchesNoRule(m) ==
    /\ m.valid
    /\ ~(m.hasHeading /\ m.prefix = "Quest Update" /\ ~m.colon)
    /\ ~(m.hasHeading /\ m.prefix = "World State Update" /\ ~m.colon)
    /\ ~(m.hasHeading /\ m.prefix \in {"Character Action", "Character Outcome"})

\* C12: a message that matches none of the dispatch rules is ignored: the handler
\* completes normally and the log, the timeline and the quest list are unchanged.
C12_UnmatchedIgnored ==
    [][ (last'.op = "wsMessage" /\ MatchesNoRule(last'.arg)) =>
          /\ ~last'.threw
          /\ log' = log
          /\ timeline' = timeline
          /\ questList' = questList ]_vars

\* C13: a payload that is not valid JSON is swallowed: the handler raises no
\* error and the log, the timeline and the quest list are unchanged.
C13_BadJsonSwallowed ==
    [][ (last'.op = "wsMessage" /\ ~last'.arg.valid) =>
          /\ ~last'.threw
          /\ log' = log
          /\ timeline' = timeline
          /\ questList' = questList ]_vars

\* the ids of the timeline entries that stem from quest q
EntryIdsOf(q) ==
    {[kind |-> "c", n |-> q.id]} \cup {q.events[k].id : k \in 1..Len(q.events)}

\* positions of the sequence tl whose entry has the given id
PositionsOf(tl, id) == {j \in 1..Len(tl) : tl[j].id = id}

\* C14: for every quest list the aggregated global timeline holds, for each quest
\* Q, exactly len(Q.events)+1 entries attributable to Q: each of Q's events once
\* and one quest-created entry stamped with Q's creation time; no entry belongs to
\* no quest; and sorting the result again gives the same sequence.
C14_AggregateComplete ==
    LET tl == RenderGlobalTimeline(quests)
    IN /\ \A i \in 1..Len(quests) :
             LET q == quests[i]
             IN /\ Len(SelectSeq(tl, LAMBDA e : e.id \in EntryIdsOf(q)))
                      = Len(q.events) + 1
                /\ \A k \in 1..Len(q.events) :
                      /\ Cardinality(PositionsOf(tl, q.events[k].id)) = 1
                      /\ \A j \in PositionsOf(tl, q.events[k].id) :
                            /\ tl[j].ts = q.events[k].ts
                            /\ tl[j].text = q.events[k].text
                            /\ tl[j].quest = q.title
                /\ Cardinality(PositionsOf(tl, [kind |-> "c", n |-> q.id])) = 1
                /\ \A j \in PositionsOf(tl, [kind |-> "c", n |-> q.id]) :
                      /\ tl[j].ts = q.created
                      /\ tl[j].type = "quest-created"
                      /\ tl[j].quest = q.title
       /\ \A j \in 1..Len(tl) : \E i \in 1..Len(quests) : tl[j].id \in EntryIdsOf(quests[i])
       /\ SortByTsDesc(tl) = tl

\* C14 witness: three quests are aggregated, one of them with two events
C14_Witness ==
    /\ Len(quests) >= 3
    /\ \E i \in 1..Len(quests) : Len(quests[i].events) >= 2
    /\ Len(RenderGlobalTimeline(quests)) >= 5

\* the place of an entry in the concatenation: the index of its quest in the list,
\* then its place within the quest (the events in order, then the creation)
EmitRank(qs, id) ==
    LET i == CHOOSE i \in 1..Len(qs) : id \in EntryIdsOf(qs[i])
        k == IF id.kind = "c" THEN Len(qs[i].events) + 1
             ELSE CHOOSE k \in 1..Len(qs[i].events) : qs[i].events[k].id = id
    IN <<i, k>>

EmittedBefore(qs, id1, id2) ==
    LET r1 == EmitRank(qs, id1)
        r2 == EmitRank(qs, id2)
    IN r1[1] < r2[1] \/ (r1[1] = r2[1] /\ r1[2] < r2[2])

\* C15: the aggregated global timeline is ordered by timestamp descending, and
\* entries with equal timestamps keep the order in which they were emitted during
\* concatenation.
C15_NewestFirstStable ==
    LET tl == RenderGlobalTimeline(quests)
    IN \A j, k \in 1..Len(tl) :
          j < k => /\ tl[j].ts >= tl[k].ts
                   /\ tl[j].ts = tl[k].ts => EmittedBefore(quests, tl[j].id, tl[k].id)

\* C15 witness: the timeline holds entries of different times, entries of one time
\* from two quests, and an entry that the sort moved ahead of one emitted earlier
C15_Witness ==
    LET tl == RenderGlobalTimeline(quests)
    IN /\ \E j, k \in 1..Len(tl) : j < k /\ tl[j].ts > tl[k].ts
                                      /\ EmittedBefore(quests, tl[k].id, tl[j].id)
       /\ \E j, k \in 1..Len(tl) : j < k /\ tl[j].ts = tl[k].ts
                                      /\ tl[j].quest # tl[k].quest

QuestMutations == {"newQuest", "addEvent", "assign", "complete", "abandon"}

\* C16: after every quest mutation (create quest, add event, assign character,
\* complete, abandon) has finished, the displayed global timeline equals the
\* aggregation of the current quest list; it is never stale.
C16_TimelineNeverStale ==
    globalTimeline = RenderGlobalTimeline(quests)

\* C16 witness: a quest was created, given an event and then abandoned, and the
\* display shows its two entries
C16_Witness ==
    /\ last.op = "abandon"
    /\ \E i \in 1..Len(quests) :
          /\ quests[i].created = 1
          /\ quests[i].status = "failed"
          /\ Len(quests[i].events) = 1
          /\ \A id \in EntryIdsOf(quests[i]) : PositionsOf(globalTimeline, id) # {}

\* C17: quest status transitions are one-way: a quest is created active, and once
\* it is completed or failed no complete or abandon action changes its status
\* again.
C17_StatusOneWay ==
    [][ /\ \A j \in 1..Len(quests') :
             (\A i \in 1..Len(quests) : quests[i].id # quests'[j].id)
                => quests'[j].status = "active"
        /\ \A i \in 1..Len(quests) : \A j \in 1..Len(quests') :
             (quests[i].id = quests'[j].id
              /\ quests[i].status \in {"completed", "failed"})
                => quests'[j].status = quests[i].status ]_vars

\* the selected character
Selected(cs) == cs[FindChar(cs, selectedCharId)]

\* every character but the selected one is as it was
OthersUntouched ==
    /\ Len(characters') = Len(characters)
    /\ \A i \in 1..Len(characters) :
          characters[i].id # selectedCharId => characters'[i] = characters[i]

\* C18: applying damage of a numeric amount sets hp to max(0, hp - amount) and
\* changes no other field of the character except possibly concentratingOn; an
\* amount that is not a number leaves the character unchanged.
C18_DamageSetsHp ==
    [][ (last'.op = "damage" /\ selectedCharId # 0) =>
          /\ selectedCharId' = selectedCharId
          /\ OthersUntouched
          /\ LET c  == Selected(characters)
                 c2 == Selected(characters')
                 floored == IF c.hp - last'.arg.amount < 0 THEN 0
                            ELSE c.hp - last'.arg.amount
             IN IF last'.arg.nan
                THEN c2 = c
                ELSE c2 = [c EXCEPT !.hp = floored,
                                    !.concentratingOn = c2.concentratingOn] ]_vars

\* C18 witness: damage beyond the remaining hit points was applied to a
\* concentrating character, who is now at 0
C18_Witness ==
    /\ last.op = "damage"
    /\ ~last.arg.nan
    /\ last.arg.amount = 25
    /\ last.arg.roll # 0
    /\ selectedCharId # 0
    /\ Selected(characters).hp = 0

\* C19: when a concentrating character takes damage, a concentration check is made
\* against difficulty max(10, floor(amount/2)): concentratingOn becomes none exactly
\* when the roll total is below the difficulty and is unchanged when the total is
\* at least the difficulty; a character that is not concentrating stays not
\* concentrating.
C19_ConcentrationCheck ==
    [][ ( /\ selectedCharId # 0
          /\ ~last'.arg.nan
          /\ \/ last'.op = "damage"
             \/ last'.op = "conCheck" /\ last'.arg.amount > 0 ) =>
          LET c     == Selected(characters)
              c2    == Selected(characters')
              half  == last'.arg.amount \div 2
              dc    == IF half > 10 THEN half ELSE 10
              total == last'.arg.roll + ((c.con - 10) \div 2)
                       + (IF last'.op = "damage" THEN CalcProf(c.level) ELSE 0)
          IN IF c.concentratingOn = NoSpell
             THEN c2.concentratingOn = NoSpell /\ last'.arg.roll = 0
             ELSE /\ last'.arg.roll \in 1..20
                  /\ total < dc => c2.concentratingOn = NoSpell
                  /\ total >= dc => c2.concentratingOn = c.concentratingOn ]_vars

\* C19 witness: a character concentrating on Hex took 25 damage and, with a total
\* of 11 against difficulty 12, lost the spell
C19_Witness ==
    /\ last.op = "damage"
    /\ last.arg.amount = 25
    /\ last.arg.roll = 7
    /\ selectedCharId = 1
    /\ Selected(characters).concentratingOn = NoSpell
    /\ Selected(characters).hp = 0

\* C19 witness of the other outcome: the same damage with a total of 12 kept the
\* spell
C19_WitnessKept ==
    /\ last.op = "damage"
    /\ last.arg.amount = 25
    /\ last.arg.roll = 8
    /\ selectedCharId = 1
    /\ Selected(characters).concentratingOn = "Hex"

\* C20: healing by a numeric amount sets hp to min(maxHp, hp + amount) and changes
\* no other field of the character.
C20_HealSetsHp ==
    [][ (last'.op = "heal" /\ selectedCharId # 0 /\ ~last'.arg.nan) =>
          /\ selectedCharId' = selectedCharId
          /\ OthersUntouched
          /\ LET c  == Selected(characters)
                 c2 == Selected(characters')
                 capped == IF c.hp + last'.arg.amount > c.maxHp THEN c.maxHp
                           ELSE c.hp + last'.arg.amount
             IN c2 = [c EXCEPT !.hp = capped] ]_vars

\* C20 witness: a character brought to 0 was healed by 6 and stands at 6
C20_Witness ==
    /\ last.op = "heal"
    /\ last.arg.amount = 6
    /\ selectedCharId # 0
    /\ Selected(characters).hp = 6
    /\ Selected(characters).hp < Selected(characters).maxHp

\* C21: a short rest spends a number n of hit dice no greater than the character's
\* current hitDice (no die is spent and no hp is regained when hitDice is 0), and
\* afterwards hitDice equals its value before the rest minus n.
C21_ShortRestSpendsOwnDice ==
    [][ (last'.op = "shortRest" /\ selectedCharId # 0) =>
          LET c  == Selected(characters)
              c2 == Selected(characters')
              n  == last'.arg.dice
          IN /\ n >= 0
             /\ n <= c.hitDice
             /\ c2.hitDice = c.hitDice - n
             /\ c.hitDice = 0 => c2.hp = c.hp ]_vars

\* C22: after a long rest hp equals maxHp, hitDice equals
\* min(level, hitDice before + ceil(level/2)), the condition set is empty and
\* concentratingOn is none.
C22_LongRestRestores ==
    [][ (last'.op = "longRest" /\ selectedCharId # 0) =>
          LET c  == Selected(characters)
              c2 == Selected(characters')
              half == -((-c.level) \div 2)
              dice == IF c.hitDice + half < c.level THEN c.hitDice + half ELSE c.level
          IN /\ c2.hp = c.maxHp
             /\ c2.maxHp = c.maxHp
             /\ c2.level = c.level
             /\ c2.hitDice = dice
             /\ c2.conditions = <<>>
             /\ c2.concentratingOn = NoSpell ]_vars

\* C22 witness: the imported level-4 character, who came wounded, poisoned and
\* concentrating with 1 hit die, has rested: full hit points, 3 hit dice, no
\* condition and no concentration
C22_Witness ==
    /\ last.op = "longRest"
    /\ selectedCharId # 0
    /\ Selected(characters).name = "Brom"
    /\ Selected(characters).level = 4
    /\ Selected(characters).hp = 30
    /\ Selected(characters).hitDice = 3
    /\ Selected(characters).conditions = <<>>
    /\ Selected(characters).concentratingOn = NoSpell

\* the proficiency table of the rules
ProfTable(level) ==
    CASE level \in 1..4   -> 2
      [] level \in 5..8   -> 3
      [] level \in 9..12  -> 4
      [] level \in 13..16 -> 5
      [] level \in 17..20 -> 6

\* C23: for every level from 1 to 20, calcProf returns 2 for levels 1-4, 3 for
\* 5-8, 4 for 9-12, 5 for 13-16 and 6 for 17-20; the sheet of the selected
\* character shows that number.
C23_ProficiencyTable ==
    /\ \A level \in 1..20 : CalcProf(level) = ProfTable(level)
    /\ \A i \in 1..Len(characters) :
          (characters[i].id = selectedCharId /\ characters[i].level \in 1..20)
             => chProf = ProfTable(characters[i].level)

\* C23 witness: a character of level 17, the first level of the last band, is
\* shown with +6 beside one of level 16
C23_Witness ==
    /\ selectedCharId # 0
    /\ Selected(characters).level = 17
    /\ chProf = 6
    /\ \E i \in 1..Len(characters) : characters[i].level = 16

\* C27: after any sequence of damage, heal, short rest, long rest, concentration
\* check and edit actions with arbitrary numeric amounts, every character
\* satisfies 0 <= hp <= maxHp.
C27_HpWithinBounds ==
    \A i \in 1..Len(characters) :
       /\ 0 <= characters[i].hp
       /\ characters[i].hp <= characters[i].maxHp

\* C28: after any sequence of character creation, short rest, long rest and edit
\* actions, every character satisfies 0 <= hitDice <= level.
C28_HitDiceWithinLevel ==
    \A i \in 1..Len(characters) :
       /\ 0 <= characters[i].hitDice
       /\ characters[i].hitDice <= characters[i].level

\* C29: after any sequence of cast/stop, damage, concentration check and long rest
\* actions, a character's concentratingOn is either none or the name of one of
\* that character's own spells whose concentration flag is true.
C29_ConcentratesOnOwnSpell ==
    \A i \in 1..Len(characters) :
       \/ characters[i].concentratingOn = NoSpell
       \/ \E k \in 1..Len(characters[i].spells) :
             /\ characters[i].spells[k].name = characters[i].concentratingOn
             /\ characters[i].spells[k].conc

\* C24: each collection is persisted wholesale: after every completed action that
\* changes the inventory, the quest list or the character list, the value stored
\* under that collection's key decodes to exactly the current in-memory
\* collection.
C24_StoredEqualsMemory ==
    /\ storedInv = inventory
    /\ storedQuests = quests
    /\ storedChars = characters

\* the ids of a list of objects
IdsOf(items) == {items[k].id : k \in 1..Len(items)}

\* C26: an import whose file is not valid JSON or is not an array fails with an
\* alert and leaves the in-memory collection and its stored value unchanged; a
\* successful import gives every imported object lacking an id a new id, places
\* the imported objects before the existing ones, and keeps every existing object.
C26_ImportMerges ==
    [][ last'.op = "importItems" =>
          IF last'.arg.input \in {"garbage", "object"}
          THEN /\ last'.arg.alert
               /\ inventory' = inventory
               /\ storedInv' = storedInv
          ELSE ~last'.arg.alert =>
                 LET n == Len(FileItems)
                 IN /\ Len(inventory') = n + Len(inventory)
                    /\ SubSeq(inventory', n + 1, Len(inventory')) = inventory
                    /\ \A k \in 1..n :
                          /\ inventory'[k] = [FileItems[k] EXCEPT !.id = inventory'[k].id]
                          /\ inventory'[k].id # 0
                          /\ FileItems[k].id # 0 => inventory'[k].id = FileItems[k].id
                          /\ FileItems[k].id = 0 =>
                                /\ inventory'[k].id \notin IdsOf(inventory)
                                /\ \A j \in 1..n : j # k => inventory'[j].id # inventory'[k].id
                    /\ storedInv' = JsonItems(inventory') ]_vars

\* C26 witness: the two-item file was imported into an inventory that a new item
\* had been added to; the imported items stand first, the first with a new id
C26_Witness ==
    /\ last.op = "importItems"
    /\ ~last.arg.alert
    /\ Len(inventory) = Len(FileItems) + Len(SampleItems) + 1
    /\ inventory[1].name = "Rope"
    /\ inventory[1].id # 0
    /\ inventory[2].id = 100
    /\ inventory[3].name = "Torch"

\* C26 witness of the failure: a file that is not JSON was refused with an alert
C26_WitnessRefused ==
    /\ last.op = "importItems"
    /\ last.arg.input = "garbage"
    /\ last.arg.alert
    /\ Len(inventory) = Len(SampleItems) + 1

\* C30: after any sequence of inventory actions (select, add, use, equip toggle,
\* edit, delete, seed, import, clear), the selected item id is either null or the
\* id of an item currently in the inventory.
C30_SelectedItemExists ==
    selectedId = 0 \/ selectedId \in IdsOf(inventory)

\* C25: when the stored value of a collection (inventory, quests or characters)
\* cannot be parsed, loading catches the error, falls back to the sample dataset,
\* and writes that dataset back to storage.
C25_BrokenStoreFallsBackToSamples ==
    [][ last'.arg.input = "garbage" =>
          /\ ~last'.threw
          /\ last'.op = "loadInventory" =>
                /\ inventory' = SampleItems
                /\ storedInv' = SampleItems
                /\ storage'["ds_inventory_v1"] = "json"
          /\ last'.op = "loadQuests" =>
                /\ quests' = SeedQuests(0, 0, 0)
                /\ storedQuests' = SeedQuests(0, 0, 0)
                /\ storage'["ds_quests_v1"] = "json"
          /\ last'.op = "loadChars" =>
                /\ characters' = SeedChars
                /\ storedChars' = SeedChars
                /\ storage'["ds_characters_v1"] = "json" ]_vars

====
